---------------------------- MODULE Spec2Model ----------------------------
(***************************************************************************)
(* Model of the slang expression/statement binder (Binder.cpp).  A bind    *)
(* entry point is a traversal of a syntax tree under one Compilation: it   *)
(* returns a bound node and appends to the compilation's diagnostic sink.  *)
(* The traversal is the recursive operator bindExpression; the state       *)
(* machine applies the binder's entry points to syntax drawn from bounded  *)
(* sets, in a scope drawn at construction.                                 *)
(***************************************************************************)
EXTENDS Integers, Sequences, FiniteSets, TLC

VARIABLES
    scope,      \* the Scope the Binder was constructed with (read-only)
    dflt,       \* value of getType's defaulted isFourState parameter in this build
    nullFaults, \* what reading through a null reference does in this build: the
                \* process faults (TRUE), or the read yields a syntax kind that
                \* no case of a switch matches (FALSE)
    diags,      \* the compilation's diagnostic sink
    mark,       \* length of the sink when the last entry point was called
    entry,      \* the entry point called last ("none" after construction)
    syntax,     \* the syntax handed to that entry point
    dstType,    \* the assignmentType handed to bindAssignmentLikeContext
    result,     \* the node (or statement) the entry point returned
    calls,      \* the calls of propagateAssignmentLike made on `result` since, in
                \* order: the lhsType handed in, what was returned, and rhs as
                \* it was before and is after the call
    optionMap,  \* CommandLine::optionMap: registered name -> Option
    positional, \* CommandLine::positional is set
    programName, \* CommandLine::programName
    errors,     \* CommandLine::errors
    options,    \* number of Option objects addInternal has allocated
    called,     \* the member of CommandLine called last: its argument, what it
                \* threw or returned, and optionMap and errors as they were
    argList,    \* parse(string_view): the string being scanned
    ptr,        \* parse(string_view): ptr, as an offset from argList.data()
    current,    \* parse(string_view): the argument being collected
    storage,    \* parse(string_view): the arguments collected
    pc          \* parse(string_view): "idle", "scan" (in the for loop), "fault"

\* the CommandLine, and the activation of its parse(string_view)
commandLineVars == <<optionMap, positional, programName, errors, options, called>>
scanVars == <<argList, ptr, current, storage, pc>>

vars == <<scope, dflt, nullFaults, diags, mark, entry, syntax, dstType, result, calls,
          optionMap, positional, programName, errors, options, called,
          argList, ptr, current, storage, pc>>

---------------------------------------------------------------------------
(* Bounds of the model *)

\* integral types of the generic variables p, q have widths 1..MaxWidth
MaxWidth == 2
\* select bounds and replication counts are literals 0..MaxIndex
MaxIndex == 2
\* subroutine calls carry 0..MaxArgs actual arguments
MaxArgs == 3

---------------------------------------------------------------------------
(* Type algebra: TypeSymbol and the Compilation's type constructors *)

IntegralType(w, s, f, lo) ==
    [kind |-> "IntegralType", width |-> w, signed |-> s, fourState |-> f, lower |-> lo]

getType(w, s, f) == IntegralType(w, s, f, 0)

IntWidth == 32
RealWidth == 64
ShortRealWidth == 32

getIntType == getType(IntWidth, TRUE, FALSE)
getLogicType == getType(1, FALSE, TRUE)
getRealType ==
    [kind |-> "RealType", width |-> RealWidth, signed |-> TRUE, fourState |-> FALSE, lower |-> 0]
getShortRealType ==
    [kind |-> "RealType", width |-> ShortRealWidth, signed |-> TRUE, fourState |-> FALSE, lower |-> 0]
getErrorType ==
    [kind |-> "ErrorType", width |-> 0, signed |-> FALSE, fourState |-> FALSE, lower |-> 0]
\* a type that is neither integral nor real
StringType ==
    [kind |-> "StringType", width |-> 0, signed |-> FALSE, fourState |-> FALSE, lower |-> 0]
\* a type that no conversion reaches
EventType ==
    [kind |-> "EventType", width |-> 0, signed |-> FALSE, fourState |-> FALSE, lower |-> 0]

width(t) == t.width
isSigned(t) == t.signed
isFourState(t) == t.fourState
isReal(t) == t.kind = "RealType"
isIntegral(t) == t.kind = "IntegralType"
isError(t) == t.kind = "ErrorType"

Max(a, b) == IF a >= b THEN a ELSE b

isNumeric(t) == isIntegral(t) \/ isReal(t)

\* dst.isAssignmentCompatible(src): matching types, or both numeric
isAssignmentCompatible(dst, src) ==
    dst = src \/ (isNumeric(dst) /\ isNumeric(src))

\* dst.isCastCompatible(src): assignment compatible, or string <-> integral
isCastCompatible(dst, src) ==
    \/ isAssignmentCompatible(dst, src)
    \/ (dst.kind = "StringType" /\ isIntegral(src))
    \/ (isIntegral(dst) /\ src.kind = "StringType")

---------------------------------------------------------------------------
(* Diagnostics *)

Diag(code, name, expected, actual, types) ==
    [code |-> code, name |-> name, expected |-> expected, actual |-> actual,
     types |-> types]

\* compilation.addError(code, location) << args: appends to the sink
addError(sink, d) == Append(sink, d)

---------------------------------------------------------------------------
(* Symbols and scopes (the scope graph is read-only during binding) *)

Symbol(kind, name, type, formals, value) ==
    [kind |-> kind, name |-> name, type |-> type, formals |-> formals, value |-> value]

NoSymbol == Symbol("None", "", getErrorType, <<>>, 0)

\* subroutine f(int a, int b) returning int
SubroutineF == Symbol("Subroutine", "f", getIntType, <<getIntType, getIntType>>, 0)
\* subroutine h(string s) returning int
SubroutineH == Symbol("Subroutine", "h", getIntType, <<StringType>>, 0)

\* types the generic variables are declared with: every integral type of
\* width 1..MaxWidth, real and shortreal
GenericIntegralTypes ==
    { getType(w, s, f) : w \in 1..MaxWidth, s \in BOOLEAN, f \in BOOLEAN }
GenericTypes == GenericIntegralTypes \cup { getRealType, getShortRealType }

\* the name of the variable the scope declares with generic type t
VarName(t) ==
    IF isReal(t) THEN "r" \o ToString(width(t))
    ELSE "i" \o ToString(width(t)) \o (IF isSigned(t) THEN "s" ELSE "u")
             \o (IF isFourState(t) THEN "4" ELSE "2")

\* the i-th generic integral type, i in 1..4 * MaxWidth
NthIntegral(i) ==
    getType(((i - 1) \div 4) + 1, ((i - 1) \div 2) % 2 = 1, (i - 1) % 2 = 1)

GenericMembers ==
    [ i \in 1..(4 * MaxWidth) |->
        Symbol("Variable", VarName(NthIntegral(i)), NthIntegral(i), <<>>, 0) ]
    \o << Symbol("Variable", VarName(getRealType), getRealType, <<>>, 0),
          Symbol("Variable", VarName(getShortRealType), getShortRealType, <<>>, 0) >>

\* the members of the scope, in declaration order
Members ==
    << Symbol("Variable", "a", getType(8, FALSE, TRUE), <<>>, 0),
       SubroutineF,
       Symbol("Variable", "b", getType(4, FALSE, TRUE), <<>>, 0),
       Symbol("Parameter", "N", getIntType, <<>>, 2),
       Symbol("Variable", "x", getIntType, <<>>, 0),
       Symbol("Variable", "y", getRealType, <<>>, 0),
       SubroutineH,
       Symbol("Variable", "v", getType(16, FALSE, TRUE), <<>>, 0),
       Symbol("Variable", "w", IntegralType(8, FALSE, TRUE, 0 - 4), <<>>, 0),
       Symbol("Variable", "s", StringType, <<>>, 0),
       Symbol("Variable", "e", EventType, <<>>, 0),
       Symbol("Variable", "wide", getType(40, FALSE, TRUE), <<>>, 0) >>
    \o GenericMembers

\* a scope: its members and its nearest enclosing Subroutine symbol, if any
Scope(members, ancestor) == [members |-> members, ancestor |-> ancestor]

\* the scope of a module body, and the scope of the body of subroutine f
Scopes == { Scope(Members, anc) : anc \in {NoSymbol, SubroutineF} }

\* scope.lookup(name, result): the member declared with that name, if any
lookup(sc, name) ==
    LET hits == { i \in 1..Len(sc.members) : sc.members[i].name = name }
    IN  IF hits = {} THEN NoSymbol
        ELSE sc.members[CHOOSE i \in hits : \A j \in hits : i <= j]

\* scope.asSymbol().findAncestor(SymbolKind::Subroutine)
findAncestor(sc) == sc.ancestor

---------------------------------------------------------------------------
(* Syntax trees (consumed as opaque tagged trees) *)

Syn(kind, name, val, vtype, sel, kids) ==
    [kind |-> kind, name |-> name, val |-> val, vtype |-> vtype, sel |-> sel,
     kids |-> kids]

Ident(n) == Syn("IdentifierName", n, 0, getErrorType, "", <<>>)
IntLit(v) == Syn("IntegerLiteralExpression", "", v, getErrorType, "", <<>>)
RealLit == Syn("RealLiteralExpression", "", 0, getErrorType, "", <<>>)
\* an unbased unsized literal '0 (unknown = FALSE) or 'x (unknown = TRUE)
UnbasedLit(unknown) ==
    Syn("UnbasedUnsizedLiteralExpression", "", 0, getType(1, FALSE, unknown), "", <<>>)
\* a sized vector literal such as 3'd2: the lexed value's width, sign, unknown bits
VecLit(w, s, unknown, v) ==
    Syn("IntegerVectorExpression", "", v, getType(w, s, unknown), "", <<>>)
\* a vector literal whose value token is missing
VecLitMissing == Syn("IntegerVectorExpression", "missing", 0, getErrorType, "", <<>>)
Paren(e) == Syn("ParenthesizedExpression", "", 0, getErrorType, "", <<e>>)
Unary(k, e) == Syn(k, "", 0, getErrorType, "", <<e>>)
Binary(k, l, r) == Syn(k, "", 0, getErrorType, "", <<l, r>>)
Cond(p, l, r) == Syn("ConditionalExpression", "", 0, getErrorType, "", <<p, l, r>>)
Concat(es) == Syn("ConcatenationExpression", "", 0, getErrorType, "", es)
Repl(n, e) == Syn("MultipleConcatenationExpression", "", 0, getErrorType, "", <<n, e>>)
\* base[l], base[l:r], base[l+:r], base[l-:r]; a bit select has the one index l
ElemSelect(base, sel, idx) ==
    Syn("ElementSelectExpression", "", 0, getErrorType, sel, <<base>> \o idx)
Invocation(n, args) == Syn("InvocationExpression", n, 0, getErrorType, "", args)

ReturnStmt(es) == Syn("ReturnStatement", "", 0, getErrorType, "", es)
ExprStmt(e) == Syn("ExpressionStatement", "", 0, getErrorType, "", <<e>>)
CondStmt(c, t, els) == Syn("ConditionalStatement", "", 0, getErrorType, "", <<c, t>> \o els)
ForStmt == Syn("ForLoopStatement", "", 0, getErrorType, "", <<>>)
\* a block item that is not a statement
DataDecl == Syn("DataDeclaration", "", 0, getErrorType, "", <<>>)

UnaryArithmeticKinds ==
    {"UnaryPlusExpression", "UnaryMinusExpression", "UnaryBitwiseNotExpression"}
UnaryReductionKinds ==
    {"UnaryBitwiseAndExpression", "UnaryBitwiseOrExpression", "UnaryBitwiseXorExpression",
     "UnaryBitwiseNandExpression", "UnaryBitwiseNorExpression",
     "UnaryBitwiseXnorExpression", "UnaryLogicalNotExpression"}
ArithmeticKinds ==
    {"AddExpression", "SubtractExpression", "MultiplyExpression", "DivideExpression",
     "ModExpression", "BinaryAndExpression", "BinaryOrExpression", "BinaryXorExpression",
     "BinaryXnorExpression"}
ComparisonKinds ==
    {"EqualityExpression", "InequalityExpression", "CaseEqualityExpression",
     "CaseInequalityExpression", "GreaterThanEqualExpression", "GreaterThanExpression",
     "LessThanEqualExpression", "LessThanExpression", "WildcardEqualityExpression",
     "WildcardInequalityExpression"}
RelationalKinds ==
    {"LogicalAndExpression", "LogicalOrExpression", "LogicalImplicationExpression",
     "LogicalEquivalenceExpression"}
ShiftOrPowerKinds ==
    {"LogicalShiftLeftExpression", "LogicalShiftRightExpression",
     "ArithmeticShiftLeftExpression", "ArithmeticShiftRightExpression", "PowerExpression"}
AssignmentKinds ==
    {"AssignmentExpression", "AddAssignmentExpression", "SubtractAssignmentExpression",
     "MultiplyAssignmentExpression", "DivideAssignmentExpression",
     "ModAssignmentExpression", "AndAssignmentExpression", "OrAssignmentExpression",
     "XorAssignmentExpression", "LogicalLeftShiftAssignmentExpression",
     "LogicalRightShiftAssignmentExpression", "ArithmeticLeftShiftAssignmentExpression",
     "ArithmeticRightShiftAssignmentExpression"}
UnimplementedKinds ==
    {"NullLiteralExpression", "StringLiteralExpression", "TimeLiteralExpression",
     "WildcardLiteralExpression", "OneStepLiteralExpression"}
StatementKinds ==
    {"ReturnStatement", "ConditionalStatement", "ForLoopStatement", "ExpressionStatement"}

isStatement(kind) == kind \in StatementKinds

---------------------------------------------------------------------------
(* Bound nodes (allocated in the compilation arena) *)

Node(kind, type, op, name, val, const, operands) ==
    [kind |-> kind, type |-> type, op |-> op, name |-> name, val |-> val,
     const |-> const, operands |-> operands]

\* no node: the value of `result` before any entry point has returned
NullNode == Node("Null", getErrorType, "", "", 0, FALSE, <<>>)
\* the traversal was abandoned: a failed ASSERT, THROW_UNREACHABLE, an exception
\* thrown by eval(), or a null dereference; `why` names the place
AbortNode(why) == Node("Abort", getErrorType, "", why, 0, FALSE, <<>>)

bad(e) == isError(e.type)
aborted(r) == r.node.kind = "Abort"

\* what a bind function hands back: the node and the sink as it left it
Ret(node, sink) == [node |-> node, diags |-> sink]
Abort(why, sink) == Ret(AbortNode(why), sink)

\* Expression::eval().integer().as<int64_t>().value(): the value of a constant
\* integer expression; evaluating anything else throws
canEval(e) == e.const /\ ~bad(e)
eval(e) == e.val

---------------------------------------------------------------------------
(* Type propagation *)

\* kinds of bound node whose context type is handed down to operands
LeafNodeKinds ==
    {"IntegerLiteral", "RealLiteral", "UnbasedUnsizedIntegerLiteral", "VariableRef",
     "ParameterRef"}

RECURSIVE propagateType(_, _)
\* Expression::propagateType(newType): re-canonicalizes the node for the context
\* type.  Arithmetic operators and the arms of a ternary take the context type
\* and hand it to their operands, shifts and power to the left operand only;
\* reductions, comparisons and logical operators are self-determined.
propagateType(e, t) ==
    CASE e.kind \in LeafNodeKinds -> [e EXCEPT !.type = t]
      [] e.kind = "UnaryExpression" /\ e.op \in UnaryArithmeticKinds ->
            [e EXCEPT !.type = t, !.operands = <<propagateType(e.operands[1], t)>>]
      [] e.kind = "BinaryExpression" /\ e.op \in ArithmeticKinds ->
            [e EXCEPT !.type = t,
                      !.operands = <<propagateType(e.operands[1], t),
                                     propagateType(e.operands[2], t)>>]
      [] e.kind = "BinaryExpression" /\ e.op \in ShiftOrPowerKinds ->
            [e EXCEPT !.type = t,
                      !.operands = <<propagateType(e.operands[1], t), e.operands[2]>>]
      [] e.kind = "TernaryExpression" ->
            [e EXCEPT !.type = t,
                      !.operands = <<e.operands[1], propagateType(e.operands[2], t),
                                     propagateType(e.operands[3], t)>>]
      [] e.kind \in {"NaryExpression", "SelectExpression", "CallExpression"} ->
            [e EXCEPT !.type = t]
      [] e.kind = "BinaryExpression" /\ e.op = "MultipleConcatenationExpression" ->
            [e EXCEPT !.type = t]
      [] OTHER -> e

\* propagateAssignmentLike were the widened type to take the signedness of lhsType
propagateAssignmentLikeLhsSigned(rhs, lhsType) ==
    IF width(lhsType) > width(rhs.type)
    THEN LET newType ==
                 IF ~isReal(lhsType) /\ ~isReal(rhs.type)
                 THEN getType(width(lhsType), isSigned(lhsType), isFourState(rhs.type))
                 ELSE IF width(lhsType) > 32 THEN getRealType ELSE getShortRealType
         IN  [changed |-> TRUE, node |-> propagateType([rhs EXCEPT !.type = newType], newType)]
    ELSE [changed |-> FALSE, node |-> rhs]

\* propagateAssignmentLike were it to act whenever the widths differ
propagateAssignmentLikeAnyWidth(rhs, lhsType) ==
    IF width(lhsType) # width(rhs.type)
    THEN LET newType ==
                 IF ~isReal(lhsType) /\ ~isReal(rhs.type)
                 THEN getType(width(lhsType), isSigned(rhs.type), isFourState(rhs.type))
                 ELSE IF width(lhsType) > 32 THEN getRealType ELSE getShortRealType
         IN  [changed |-> TRUE, node |-> propagateType([rhs EXCEPT !.type = newType], newType)]
    ELSE [changed |-> FALSE, node |-> rhs]

\* propagateAssignmentLike were it to act on equal widths as well
propagateAssignmentLikeOrEqual(rhs, lhsType) ==
    IF width(lhsType) >= width(rhs.type)
    THEN LET newType ==
                 IF ~isReal(lhsType) /\ ~isReal(rhs.type)
                 THEN getType(width(lhsType), isSigned(rhs.type), isFourState(rhs.type))
                 ELSE IF width(lhsType) > 32 THEN getRealType ELSE getShortRealType
         IN  [changed |-> TRUE, node |-> propagateType([rhs EXCEPT !.type = newType], newType)]
    ELSE [changed |-> FALSE, node |-> rhs]

\* Binder::propagateAssignmentLike: widens rhs to the width of lhsType; hands
\* back whether it did, and rhs as it is afterwards
propagateAssignmentLike(rhs, lhsType) ==
    IF width(lhsType) > width(rhs.type)
    THEN LET newType ==
                 IF ~isReal(lhsType) /\ ~isReal(rhs.type)
                 THEN getType(width(lhsType), isSigned(rhs.type), isFourState(rhs.type))
                 ELSE IF width(lhsType) > 32 THEN getRealType ELSE getShortRealType
         IN  [changed |-> TRUE, node |-> propagateType([rhs EXCEPT !.type = newType], newType)]
    ELSE [changed |-> FALSE, node |-> rhs]

\* binaryOperatorResultType were the result signed as soon as one operand is
binaryOperatorResultTypeEitherSigned(lhsType, rhsType, forceFourState) ==
    LET w == Max(width(lhsType), width(rhsType))
        sgn == isSigned(lhsType) \/ isSigned(rhsType)
        fourState == forceFourState \/ isFourState(lhsType) \/ isFourState(rhsType)
    IN  IF isReal(lhsType) \/ isReal(rhsType)
        THEN IF w >= 64 THEN getRealType ELSE getShortRealType
        ELSE getType(w, sgn, fourState)

\* binaryOperatorResultType were a real operand to give shortreal at any width
binaryOperatorResultTypeShortReal(lhsType, rhsType, forceFourState) ==
    LET w == Max(width(lhsType), width(rhsType))
        sgn == isSigned(lhsType) /\ isSigned(rhsType)
        fourState == forceFourState \/ isFourState(lhsType) \/ isFourState(rhsType)
    IN  IF isReal(lhsType) \/ isReal(rhsType)
        THEN getShortRealType
        ELSE getType(w, sgn, fourState)

\* Binder::binaryOperatorResultType
binaryOperatorResultType(lhsType, rhsType, forceFourState) ==
    LET w == Max(width(lhsType), width(rhsType))
        sgn == isSigned(lhsType) /\ isSigned(rhsType)
        fourState == forceFourState \/ isFourState(lhsType) \/ isFourState(rhsType)
    IN  IF isReal(lhsType) \/ isReal(rhsType)
        THEN IF w >= 64 THEN getRealType ELSE getShortRealType
        ELSE getType(w, sgn, fourState)

\* Binder::badExpr(expr): an InvalidExpression of the error type wrapping expr;
\* `wrapped` is <<expr>>, or <<>> for badExpr(nullptr)
badExpr(wrapped) == Node("Invalid", getErrorType, "", "", 0, FALSE, wrapped)

\* Binder::badStmt(stmt)
badStmt(wrapped) == Node("InvalidStatement", getErrorType, "", "", 0, FALSE, wrapped)

---------------------------------------------------------------------------
(* Operator applicability *)

\* what an applicability check hands back: its verdict and the sink
Verdict(ok, sink) == [ok |-> ok, diags |-> sink]

\* checkOperatorApplicability(op, location, operand) were it to admit real
\* operands to every unary operator
checkOperatorApplicabilityUnaryAllNumeric(op, operand, sink) ==
    IF bad(operand) THEN Verdict(FALSE, sink)
    ELSE LET type == operand.type
         IN  IF isIntegral(type) \/ isReal(type) THEN Verdict(TRUE, sink)
             ELSE Verdict(FALSE,
                          addError(sink, Diag("BadUnaryExpression", "", 0, 0, <<type>>)))

\* Binder::checkOperatorApplicability(op, location, operand)
checkOperatorApplicabilityUnary(op, operand, sink) ==
    IF bad(operand) THEN Verdict(FALSE, sink)
    ELSE LET type == operand.type
             good ==
                 IF op \in {"UnaryPlusExpression", "UnaryMinusExpression",
                            "UnaryLogicalNotExpression"}
                 THEN isIntegral(type) \/ isReal(type)
                 ELSE isIntegral(type)
         IN  IF good THEN Verdict(TRUE, sink)
             ELSE Verdict(FALSE,
                          addError(sink, Diag("BadUnaryExpression", "", 0, 0, <<type>>)))

\* binary operators applicable to integral and to real operands
NumericBinaryKinds ==
    {"AddExpression", "SubtractExpression", "MultiplyExpression", "DivideExpression",
     "PowerExpression", "LogicalAndExpression", "LogicalOrExpression",
     "LogicalImplicationExpression", "LogicalEquivalenceExpression",
     "LessThanEqualExpression", "LessThanExpression", "GreaterThanEqualExpression",
     "GreaterThanExpression", "EqualityExpression", "InequalityExpression",
     "WildcardEqualityExpression", "WildcardInequalityExpression",
     "CaseEqualityExpression", "CaseInequalityExpression"}

\* checkOperatorApplicability(op, location, lhs, rhs) without the bad() test
\* of its first lines
checkOperatorApplicabilityBinaryOnBad(op, lhs, rhs, sink) ==
    LET lt == lhs.type
        rt == rhs.type
        good ==
            IF op \in NumericBinaryKinds
            THEN (isIntegral(lt) \/ isReal(lt)) /\ (isIntegral(rt) \/ isReal(rt))
            ELSE isIntegral(lt) /\ isIntegral(rt)
    IN  IF good THEN Verdict(TRUE, sink)
        ELSE Verdict(FALSE,
                     addError(sink, Diag("BadBinaryExpression", "", 0, 0, <<lt, rt>>)))

\* checkOperatorApplicability(op, location, lhs, rhs) were its diagnostic put
\* in front of the sink
checkOperatorApplicabilityBinaryInFront(op, lhs, rhs, sink) ==
    IF bad(lhs) \/ bad(rhs) THEN Verdict(FALSE, sink)
    ELSE LET lt == lhs.type
             rt == rhs.type
             good ==
                 IF op \in NumericBinaryKinds
                 THEN (isIntegral(lt) \/ isReal(lt)) /\ (isIntegral(rt) \/ isReal(rt))
                 ELSE isIntegral(lt) /\ isIntegral(rt)
         IN  IF good THEN Verdict(TRUE, sink)
             ELSE Verdict(FALSE,
                          <<Diag("BadBinaryExpression", "", 0, 0, <<lt, rt>>)>> \o sink)

\* Binder::checkOperatorApplicability(op, location, lhs, rhs)
checkOperatorApplicabilityBinary(op, lhs, rhs, sink) ==
    IF bad(lhs) \/ bad(rhs) THEN Verdict(FALSE, sink)
    ELSE LET lt == lhs.type
             rt == rhs.type
             good ==
                 IF op \in NumericBinaryKinds
                 THEN (isIntegral(lt) \/ isReal(lt)) /\ (isIntegral(rt) \/ isReal(rt))
                 ELSE isIntegral(lt) /\ isIntegral(rt)
         IN  IF good THEN Verdict(TRUE, sink)
             ELSE Verdict(FALSE,
                          addError(sink, Diag("BadBinaryExpression", "", 0, 0, <<lt, rt>>)))

---------------------------------------------------------------------------
(* The expression binder.  B is the binder's scope, syn the syntax and sink  *)
(* the diagnostic sink on entry; the result is Ret(node, sink on exit).      *)
(* The recursion of the traversal is in bindExpression: a bind function is   *)
(* handed ks, what binding the children of syn in source order hands back    *)
(* (each a Ret, the sink threaded from one to the next, ending at the first  *)
(* child that abandons the traversal), and consults ks[i] where the code     *)
(* binds child i.  A child the code does not reach is not consulted, so its  *)
(* diagnostics are not reported.                                             *)

RECURSIVE bindExpression(_, _, _)

\* the unsigned 16-bit value the replication count is read as
Uint16Range == 65536
asUint16(v) == v % Uint16Range

\* the last of ks abandoned the traversal
abortIn(ks) == ks # <<>> /\ aborted(ks[Len(ks)])
\* the sink after the children ks, bound from `sink`
sinkAfter(ks, sink) == IF ks = <<>> THEN sink ELSE ks[Len(ks)].diags
\* the nodes of ks
RECURSIVE nodesOf(_)
nodesOf(ks) == IF ks = <<>> THEN <<>> ELSE <<ks[1].node>> \o nodesOf(Tail(ks))

\* Binder::bindLiteral(const LiteralExpressionSyntax&)
bindLiteral(syn, sink) ==
    CASE syn.kind = "IntegerLiteralExpression" ->
            Ret(Node("IntegerLiteral", getIntType, syn.kind, "", syn.val, TRUE, <<>>), sink)
      [] syn.kind = "RealLiteralExpression" ->
            Ret(Node("RealLiteral", getRealType, syn.kind, "", 0, FALSE, <<>>), sink)
      [] syn.kind = "UnbasedUnsizedLiteralExpression" ->
            Ret(Node("UnbasedUnsizedIntegerLiteral",
                     getType(1, FALSE, syn.vtype.fourState), syn.kind, "", syn.val,
                     FALSE, <<>>), sink)
      [] OTHER -> Abort("bindLiteral: unreachable", sink)

\* Binder::bindLiteral(const IntegerVectorExpressionSyntax&)
bindVectorLiteral(syn, sink) ==
    IF syn.name = "missing"
    THEN Ret(badExpr(<<Node("IntegerLiteral", getErrorType, syn.kind, "", 0, TRUE, <<>>)>>),
             sink)
    ELSE Ret(Node("IntegerLiteral",
                  getType(syn.vtype.width, syn.vtype.signed, syn.vtype.fourState),
                  syn.kind, "", syn.val, TRUE, <<>>), sink)

\* Binder::bindSimpleName
bindSimpleName(B, syn, sink) ==
    LET symbol == lookup(B, syn.name)
    IN  IF symbol = NoSymbol
        THEN Ret(badExpr(<<>>),
                 addError(sink, Diag("UndeclaredIdentifier", syn.name, 0, 0, <<>>)))
        ELSE CASE symbol.kind \in {"Variable", "FormalArgument"} ->
                    Ret(Node("VariableRef", symbol.type, syn.kind, symbol.name, 0, FALSE,
                             <<>>), sink)
               [] symbol.kind = "Parameter" ->
                    Ret(Node("ParameterRef", symbol.type, syn.kind, symbol.name,
                             symbol.value, TRUE, <<>>), sink)
               [] OTHER -> Abort("bindSimpleName: unreachable", sink)

\* the Invalid node a unary operator binds to when it is not applicable
badUnary(syn, o) ==
    badExpr(<<Node("UnaryExpression", getErrorType, syn.kind, "", 0, FALSE, <<o>>)>>)

\* Binder::bindUnaryArithmeticOperator; ks = <<operand>>
bindUnaryArithmeticOperator(syn, ks, sink) ==
    LET operand == ks[1].node
        chk == checkOperatorApplicabilityUnary(syn.kind, operand, ks[1].diags)
    IN  IF abortIn(ks) THEN ks[Len(ks)]
        ELSE IF ~chk.ok THEN Ret(badUnary(syn, operand), chk.diags)
        ELSE Ret(Node("UnaryExpression", operand.type, syn.kind, "", 0, FALSE, <<operand>>),
                 chk.diags)

\* Binder::bindUnaryReductionOperator; ks = <<operand>>
bindUnaryReductionOperator(syn, ks, sink) ==
    LET operand == ks[1].node
        chk == checkOperatorApplicabilityUnary(syn.kind, operand, ks[1].diags)
    IN  IF abortIn(ks) THEN ks[Len(ks)]
        ELSE IF ~chk.ok THEN Ret(badUnary(syn, operand), chk.diags)
        ELSE Ret(Node("UnaryExpression", getLogicType, syn.kind, "", 0, FALSE, <<operand>>),
                 chk.diags)

\* the Invalid node a binary operator binds to when it is not applicable
badBinary(syn, l, r) ==
    badExpr(<<Node("BinaryExpression", getErrorType, syn.kind, "", 0, FALSE, <<l, r>>)>>)

\* Binder::bindArithmeticOperator; ks = <<lhs, rhs>>
bindArithmeticOperator(syn, ks, sink) ==
    LET lhs == ks[1].node
        rhs == ks[2].node
        chk == checkOperatorApplicabilityBinary(syn.kind, lhs, rhs, ks[2].diags)
        type == binaryOperatorResultType(lhs.type, rhs.type, syn.kind = "DivideExpression")
    IN  IF abortIn(ks) THEN ks[Len(ks)]
        ELSE IF ~chk.ok THEN Ret(badBinary(syn, lhs, rhs), chk.diags)
        ELSE Ret(Node("BinaryExpression", type, syn.kind, "", 0, FALSE, <<lhs, rhs>>),
                 chk.diags)

\* Binder::bindComparisonOperator; ks = <<lhs, rhs>>
bindComparisonOperator(syn, ks, sink) ==
    LET lhs == ks[1].node
        rhs == ks[2].node
        chk == checkOperatorApplicabilityBinary(syn.kind, lhs, rhs, ks[2].diags)
    IN  IF abortIn(ks) THEN ks[Len(ks)]
        ELSE IF ~chk.ok THEN Ret(badBinary(syn, lhs, rhs), chk.diags)
        ELSE Ret(Node("BinaryExpression", getLogicType, syn.kind, "", 0, FALSE,
                      <<lhs, rhs>>), chk.diags)

\* Binder::bindRelationalOperator; ks = <<lhs, rhs>>
bindRelationalOperator(syn, ks, sink) ==
    LET lhs == ks[1].node
        rhs == ks[2].node
        chk == checkOperatorApplicabilityBinary(syn.kind, lhs, rhs, ks[2].diags)
        pr == propagateAssignmentLike(rhs, lhs.type)
        pl == IF pr.changed THEN [changed |-> FALSE, node |-> lhs]
              ELSE propagateAssignmentLike(lhs, pr.node.type)
    IN  IF abortIn(ks) THEN ks[Len(ks)]
        ELSE IF ~chk.ok THEN Ret(badBinary(syn, lhs, rhs), chk.diags)
        ELSE Ret(Node("BinaryExpression", getLogicType, syn.kind, "", 0, FALSE,
                      <<pl.node, pr.node>>), chk.diags)

\* Binder::bindShiftOrPowerOperator; ks = <<lhs, rhs>>
bindShiftOrPowerOperator(syn, ks, sink) ==
    LET lhs == ks[1].node
        rhs == ks[2].node
        chk == checkOperatorApplicabilityBinary(syn.kind, lhs, rhs, ks[2].diags)
        type == binaryOperatorResultType(lhs.type, rhs.type, syn.kind = "PowerExpression")
    IN  IF abortIn(ks) THEN ks[Len(ks)]
        ELSE IF ~chk.ok THEN Ret(badBinary(syn, lhs, rhs), chk.diags)
        ELSE Ret(Node("BinaryExpression", type, syn.kind, "", 0, FALSE, <<lhs, rhs>>),
                 chk.diags)

\* the binary operator a compound assignment applies ("Unknown" for plain =)
binopKind(kind) ==
    CASE kind = "AssignmentExpression" -> "Unknown"
      [] kind = "AddAssignmentExpression" -> "AddExpression"
      [] kind = "SubtractAssignmentExpression" -> "SubtractExpression"
      [] kind = "MultiplyAssignmentExpression" -> "MultiplyExpression"
      [] kind = "DivideAssignmentExpression" -> "DivideExpression"
      [] kind = "ModAssignmentExpression" -> "ModExpression"
      [] kind = "AndAssignmentExpression" -> "BinaryAndExpression"
      [] kind = "OrAssignmentExpression" -> "BinaryOrExpression"
      [] kind = "XorAssignmentExpression" -> "BinaryXorExpression"
      [] kind = "LogicalLeftShiftAssignmentExpression" -> "LogicalShiftLeftExpression"
      [] kind = "LogicalRightShiftAssignmentExpression" -> "LogicalShiftRightExpression"
      [] kind = "ArithmeticLeftShiftAssignmentExpression" -> "ArithmeticShiftLeftExpression"
      [] kind = "ArithmeticRightShiftAssignmentExpression" ->
            "ArithmeticShiftRightExpression"

\* Binder::bindAssignmentOperator; ks = <<lhs, rhs>>
bindAssignmentOperator(syn, ks, sink) ==
    LET lhs == ks[1].node
        rhs == ks[2].node
        chk == checkOperatorApplicabilityBinary(binopKind(syn.kind), lhs, rhs, ks[2].diags)
        pr == propagateAssignmentLike(rhs, lhs.type)
    IN  IF abortIn(ks) THEN ks[Len(ks)]
        ELSE IF ~chk.ok THEN Ret(badBinary(syn, lhs, rhs), chk.diags)
        ELSE Ret(Node("BinaryExpression", lhs.type, syn.kind, "", 0, FALSE,
                      <<lhs, pr.node>>), chk.diags)

\* bindSubroutineCall were TooManyArguments to carry the actual count first
bindSubroutineCallActualFirst(B, syn, ks, sink) ==
    LET symbol == lookup(B, syn.name)
        actualArgs == syn.kids
        formalArgs == symbol.formals
    IN  IF ~(symbol # NoSymbol /\ symbol.kind = "Subroutine")
        THEN Abort("bindSubroutineCall: ASSERT", sink)
        ELSE IF Len(formalArgs) < Len(actualArgs)
        THEN Ret(badExpr(<<>>),
                 addError(sink, Diag("TooManyArguments", "", Len(actualArgs),
                                     Len(formalArgs), <<>>)))
        ELSE IF abortIn(ks) THEN ks[Len(ks)]
        ELSE Ret(Node("CallExpression", symbol.type, syn.kind, symbol.name, 0, FALSE,
                      nodesOf(ks)), sinkAfter(ks, sink))

\* Binder::bindSubroutineCall; ks = the actual arguments, each bound by
\* bindAssignmentLikeContext against its formal argument's type
bindSubroutineCall(B, syn, ks, sink) ==
    LET symbol == lookup(B, syn.name)
        actualArgs == syn.kids
        formalArgs == symbol.formals
    IN  IF ~(symbol # NoSymbol /\ symbol.kind = "Subroutine")
        THEN Abort("bindSubroutineCall: ASSERT", sink)
        ELSE IF Len(formalArgs) < Len(actualArgs)
        THEN Ret(badExpr(<<>>),
                 addError(sink, Diag("TooManyArguments", "", Len(formalArgs),
                                     Len(actualArgs), <<>>)))
        ELSE IF abortIn(ks) THEN ks[Len(ks)]
        ELSE Ret(Node("CallExpression", symbol.type, syn.kind, symbol.name, 0, FALSE,
                      nodesOf(ks)), sinkAfter(ks, sink))

\* Binder::bindConditionalExpression; ks = <<pred, left, right>>
bindConditionalExpression(syn, ks, sink) ==
    LET pred == ks[1].node
        left == ks[2].node
        right == ks[3].node
        type == binaryOperatorResultType(left.type, right.type, TRUE)
    IN  IF abortIn(ks) THEN ks[Len(ks)]
        ELSE Ret(Node("TernaryExpression", type, syn.kind, "", 0, FALSE,
                      <<pred, left, right>>), ks[3].diags)

RECURSIVE bindConcatenationElements(_, _, _, _, _, _)
\* the loop of Binder::bindConcatenationExpression from element i on, buffer and
\* totalWidth as the earlier elements left them; ks = the elements
bindConcatenationElements(syn, ks, i, sink, buffer, totalWidth) ==
    IF i > Len(syn.kids)
    THEN Ret(Node("NaryExpression", getType(totalWidth, FALSE, dflt), syn.kind, "", 0,
                  FALSE, buffer), sink)
    ELSE IF aborted(ks[i]) THEN ks[i]
    ELSE IF ks[i].node.type.kind # "IntegralType"
    THEN Ret(badExpr(<<Node("NaryExpression", getErrorType, syn.kind, "", 0, FALSE, <<>>)>>),
             ks[i].diags)
    ELSE bindConcatenationElements(syn, ks, i + 1, ks[i].diags, Append(buffer, ks[i].node),
                                   totalWidth + width(ks[i].node.type))

\* Binder::bindConcatenationExpression; ks = the elements
bindConcatenationExpression(syn, ks, sink) ==
    bindConcatenationElements(syn, ks, 1, sink, <<>>, 0)

\* Binder::bindMultipleConcatenationExpression; ks = <<count, concatenation>>
bindMultipleConcatenationExpression(syn, ks, sink) ==
    LET left == ks[1].node
        right == ks[2].node
        replicationTimes == asUint16(eval(left))
    IN  IF abortIn(ks) THEN ks[Len(ks)]
        ELSE IF ~canEval(left)
        THEN Abort("bindMultipleConcatenationExpression: eval", ks[2].diags)
        ELSE Ret(Node("BinaryExpression",
                      getType(width(right.type) * replicationTimes, FALSE, dflt),
                      syn.kind, "", 0, FALSE, <<left, right>>), ks[2].diags)

\* Binder::bindSelectExpression(syntax, expr, selector); ks = <<expr, index>> for
\* a bit select, <<expr, left, right>> for a range select; kind = selector.kind
bindSelectExpressionOn(syn, ks, kind) ==
    LET expr == ks[1].node
        down == expr.type.lower >= 0
        sel(w, l, r) ==
            Node("SelectExpression", getType(w, isSigned(expr.type), isFourState(expr.type)),
                 kind, "", 0, FALSE, <<expr, l, r>>)
    IN  IF aborted(ks[1]) THEN ks[1]
        ELSE IF bad(expr) THEN Ret(badExpr(<<expr>>), ks[1].diags)
        ELSE IF ~isIntegral(expr.type)
        THEN Abort("bindSelectExpression: as<IntegralTypeSymbol>", ks[1].diags)
        ELSE CASE kind = "BitSelect" ->
                    IF abortIn(ks) THEN ks[Len(ks)]
                    ELSE Ret(sel(1, ks[2].node, ks[2].node), ks[2].diags)
               [] kind = "SimpleRangeSelect" ->
                    IF abortIn(ks) THEN ks[Len(ks)]
                    ELSE IF ~canEval(ks[2].node) \/ ~canEval(ks[3].node)
                    THEN Abort("bindSelectExpression: eval", ks[3].diags)
                    ELSE Ret(sel((IF down THEN 1 ELSE 0 - 1)
                                    * (eval(ks[2].node) - eval(ks[3].node)),
                                 ks[2].node, ks[3].node), ks[3].diags)
               [] kind \in {"AscendingRangeSelect", "DescendingRangeSelect"} ->
                    IF abortIn(ks) THEN ks[Len(ks)]
                    ELSE IF ~canEval(ks[3].node)
                    THEN Abort("bindSelectExpression: eval", ks[3].diags)
                    ELSE Ret(sel(eval(ks[3].node), ks[2].node, ks[3].node), ks[3].diags)
               [] OTHER -> Abort("bindSelectExpression: unreachable", ks[1].diags)

\* Binder::bindSelectExpression(const ElementSelectExpressionSyntax&);
\* ks = <<syntax.left, the selector's index expressions>>
bindSelectExpression(syn, ks, sink) == bindSelectExpressionOn(syn, ks, syn.sel)

\* Binder::bindSelectName: id[selector] bound as an element select on the
\* simple name id; ks = <<id, the selector's index expressions>>
bindSelectName(syn, ks, sink) == bindSelectExpressionOn(syn, ks, syn.sel)

\* the scope of package pkg, which declares int k
PackageScope == Scope(<<Symbol("Variable", "k", getIntType, <<>>, 0)>>, NoSymbol)
\* scope.asSymbol().getRoot().findPackage(name): pkg is the one package
hasPackage(name) == name = "pkg"

\* Binder::bindScopedName: the right-hand name is bound by a Binder on the
\* package's scope
bindScopedName(B, syn, sink) ==
    IF syn.sel # "DoubleColon" \/ syn.kids[1].kind # "IdentifierName"
    THEN Ret(badExpr(<<>>), sink)
    ELSE IF syn.kids[1].name = "" THEN Ret(badExpr(<<>>), sink)
    ELSE IF ~hasPackage(syn.kids[1].name) THEN Ret(badExpr(<<>>), sink)
    ELSE bindExpression(PackageScope, syn.kids[2], sink)

\* Binder::bindName
bindName(B, syn, ks, sink) ==
    CASE syn.kind = "IdentifierName" -> bindSimpleName(B, syn, sink)
      [] syn.kind = "IdentifierSelectName" -> bindSelectName(syn, ks, sink)
      [] syn.kind = "ScopedName" -> bindScopedName(B, syn, sink)
      [] OTHER -> Abort("bindName: unreachable", sink)

\* bindAssignmentLikeContext were every incompatibility reported as BadAssignment
assignmentLikeContextBadAssignment(expr, assignmentType) ==
    LET type == expr.node.type
        pr == propagateAssignmentLike(expr.node, assignmentType)
    IN  IF aborted(expr) THEN expr
        ELSE IF bad(expr.node) THEN expr
        ELSE IF ~isAssignmentCompatible(assignmentType, type)
        THEN Ret(badExpr(<<expr.node>>),
                 addError(expr.diags, Diag("BadAssignment", "", 0, 0, <<>>)))
        ELSE IF ~pr.changed
        THEN Ret(propagateType(expr.node, expr.node.type), expr.diags)
        ELSE Ret(pr.node, expr.diags)

\* the part of Binder::bindAssignmentLikeContext that follows bindAndPropagate:
\* expr is what bindAndPropagate(syntax) handed back
assignmentLikeContext(expr, assignmentType) ==
    LET type == expr.node.type
        code == IF isCastCompatible(assignmentType, type) THEN "NoImplicitConversion"
                ELSE "BadAssignment"
        pr == propagateAssignmentLike(expr.node, assignmentType)
    IN  IF aborted(expr) THEN expr
        ELSE IF bad(expr.node) THEN expr
        ELSE IF ~isAssignmentCompatible(assignmentType, type)
        THEN Ret(badExpr(<<expr.node>>),
                 addError(expr.diags, Diag(code, "", 0, 0, <<>>)))
        ELSE IF ~pr.changed
        THEN Ret(propagateType(expr.node, expr.node.type), expr.diags)
        ELSE Ret(pr.node, expr.diags)

\* the part of Binder::bindAndPropagate that follows bindExpression
propagated(expr) ==
    IF aborted(expr) THEN expr
    ELSE Ret(propagateType(expr.node, expr.node.type), expr.diags)

\* the subexpressions the bind function of syn binds, in the order it binds them
childrenOf(syn) ==
    CASE syn.kind = "IdentifierSelectName" -> <<Ident(syn.name)>> \o syn.kids
      [] syn.kind \in {"ParenthesizedExpression", "ScopedName"} -> <<>>
      [] OTHER -> syn.kids

RECURSIVE bindChildren(_, _, _, _, _)
\* binds children i.. of `children` in order, the sink threaded through, up to
\* the first that abandons the traversal: by bindAssignmentLikeContext against
\* formals[i] when the parent is a subroutine call (as far as there are formal
\* arguments), by bindAndPropagate otherwise
bindChildren(B, children, i, formals, sink) ==
    IF i > Len(children) \/ (formals # <<>> /\ i > Len(formals)) THEN <<>>
    ELSE LET expr == propagated(bindExpression(B, children[i], sink))
             k == IF formals # <<>> THEN assignmentLikeContext(expr, formals[i]) ELSE expr
         IN  IF aborted(k) THEN <<k>>
             ELSE <<k>> \o bindChildren(B, children, i + 1, formals, k.diags)

\* Binder::bindExpression
bindExpression(B, syn, sink) ==
    LET formals == IF syn.kind = "InvocationExpression"
                   THEN lookup(B, syn.name).formals ELSE <<>>
        ks == IF syn.kind = "InvocationExpression" /\ formals = <<>> THEN <<>>
              ELSE bindChildren(B, childrenOf(syn), 1, formals, sink)
    IN  CASE syn.kind \in UnimplementedKinds -> Ret(badExpr(<<>>), sink)
          [] syn.kind \in {"IdentifierName", "IdentifierSelectName", "ScopedName"} ->
                bindName(B, syn, ks, sink)
          [] syn.kind \in {"RealLiteralExpression", "IntegerLiteralExpression",
                           "UnbasedUnsizedLiteralExpression"} -> bindLiteral(syn, sink)
          [] syn.kind = "IntegerVectorExpression" -> bindVectorLiteral(syn, sink)
          [] syn.kind = "ParenthesizedExpression" -> bindExpression(B, syn.kids[1], sink)
          [] syn.kind \in UnaryArithmeticKinds -> bindUnaryArithmeticOperator(syn, ks, sink)
          [] syn.kind \in UnaryReductionKinds -> bindUnaryReductionOperator(syn, ks, sink)
          [] syn.kind \in ArithmeticKinds -> bindArithmeticOperator(syn, ks, sink)
          [] syn.kind \in ComparisonKinds -> bindComparisonOperator(syn, ks, sink)
          [] syn.kind \in RelationalKinds -> bindRelationalOperator(syn, ks, sink)
          [] syn.kind \in ShiftOrPowerKinds -> bindShiftOrPowerOperator(syn, ks, sink)
          [] syn.kind \in AssignmentKinds -> bindAssignmentOperator(syn, ks, sink)
          [] syn.kind = "InvocationExpression" -> bindSubroutineCall(B, syn, ks, sink)
          [] syn.kind = "ConditionalExpression" -> bindConditionalExpression(syn, ks, sink)
          [] syn.kind = "ConcatenationExpression" ->
                bindConcatenationExpression(syn, ks, sink)
          [] syn.kind = "MultipleConcatenationExpression" ->
                bindMultipleConcatenationExpression(syn, ks, sink)
          [] syn.kind = "ElementSelectExpression" -> bindSelectExpression(syn, ks, sink)
          [] OTHER -> Abort("bindExpression: unreachable", sink)

\* Binder::bindAndPropagate
bindAndPropagate(B, syn, sink) == propagated(bindExpression(B, syn, sink))

\* Binder::bindAssignmentLikeContext
bindAssignmentLikeContext(B, syn, assignmentType, sink) ==
    assignmentLikeContext(bindAndPropagate(B, syn, sink), assignmentType)

\* Binder::bindConstantExpression
bindConstantExpression(B, syn, sink) == bindAndPropagate(B, syn, sink)

\* Binder::bindSelfDeterminedExpression
bindSelfDeterminedExpression(B, syn, sink) == bindAndPropagate(B, syn, sink)

---------------------------------------------------------------------------
(* The statement binder *)

\* statements carry no type
NoType == [kind |-> "NoType", width |-> 0, signed |-> FALSE, fourState |-> FALSE, lower |-> 0]

Stmt(kind, name, children) == Node(kind, NoType, kind, name, 0, FALSE, children)

\* As for expressions, the recursion of the traversal is in bindStatement: a
\* bind function is handed ks, what binding the parts of the statement in
\* source order hands back, and consults ks[i] where the code binds part i.

RECURSIVE bindStatement(_, _, _)
RECURSIVE bindParts(_, _, _, _)

\* bindReturnStatement were it to report nothing outside a subroutine
bindReturnStatementSilent(B, syn, ks, sink) ==
    LET subroutine == findAncestor(B)
    IN  IF subroutine = NoSymbol THEN Ret(badStmt(<<>>), sink)
        ELSE IF ks = <<>> THEN Abort("bindReturnStatement: null returnValue", sink)
        ELSE IF abortIn(ks) THEN ks[Len(ks)]
        ELSE Ret(Stmt("ReturnStatement", "", <<ks[1].node>>), ks[1].diags)

\* Binder::bindReturnStatement; ks = <<the return value, bound by
\* bindAssignmentLikeContext against the subroutine's return type>>, or <<>>
\* when the dereference of a null returnValue faulted
bindReturnStatement(B, syn, ks, sink) ==
    LET subroutine == findAncestor(B)
    IN  IF subroutine = NoSymbol
        THEN Ret(badStmt(<<>>), addError(sink, Diag("ReturnNotInSubroutine", "", 0, 0, <<>>)))
        ELSE IF ks = <<>> THEN Abort("bindReturnStatement: null returnValue", sink)
        ELSE IF abortIn(ks) THEN ks[Len(ks)]
        ELSE Ret(Stmt("ReturnStatement", "", <<ks[1].node>>), ks[1].diags)

\* Binder::bindConditionalStatement; ks = <<cond, ifTrue>> or <<cond, ifTrue, ifFalse>>
bindConditionalStatement(B, syn, ks, sink) ==
    IF abortIn(ks) THEN ks[Len(ks)]
    ELSE Ret(Stmt("ConditionalStatement", "", nodesOf(ks)), sinkAfter(ks, sink))

\* Binder::bindForLoopStatement
bindForLoopStatement(B, syn, sink) == Ret(badStmt(<<>>), sink)

\* Binder::bindExpressionStatement; ks = <<expr>>
bindExpressionStatement(B, syn, ks, sink) ==
    IF abortIn(ks) THEN ks[Len(ks)]
    ELSE Ret(Stmt("ExpressionStatement", "", <<ks[1].node>>), ks[1].diags)

\* part i bound as k: the parts from i on
boundParts(B, syn, i, k) ==
    IF aborted(k) THEN <<k>> ELSE <<k>> \o bindParts(B, syn, i + 1, k.diags)

\* what *syntax.returnValue reads: the value of the return, or, through a null
\* returnValue in a build where that read does not fault, syntax of no known kind
returnValue(syn) ==
    IF syn.kids = <<>> THEN Syn("Unknown", "", 0, getErrorType, "", <<>>) ELSE syn.kids[1]

\* binds parts i.. of statement syn in order, the sink threaded through, up to
\* the first that abandons the traversal: a statement by bindStatement, the
\* value of a return by bindAssignmentLikeContext against the return type of
\* the enclosing subroutine (when there is one), any other expression by
\* bindSelfDeterminedExpression.  A for loop binds none of its parts.
bindParts(B, syn, i, sink) ==
    IF syn.kind = "ForLoopStatement" THEN <<>>
    ELSE IF syn.kind = "ReturnStatement"
    THEN IF i > 1 \/ findAncestor(B) = NoSymbol \/ (syn.kids = <<>> /\ nullFaults) THEN <<>>
         ELSE boundParts(B, syn, i,
                         bindAssignmentLikeContext(B, returnValue(syn),
                                                   findAncestor(B).type, sink))
    ELSE IF i > Len(syn.kids) THEN <<>>
    ELSE IF isStatement(syn.kids[i].kind)
    THEN boundParts(B, syn, i, bindStatement(B, syn.kids[i], sink))
    ELSE boundParts(B, syn, i, bindSelfDeterminedExpression(B, syn.kids[i], sink))

\* the kind switch of Binder::bindStatement, the parts of syn bound as ks
bindStatementOf(B, syn, ks, sink) ==
    CASE syn.kind = "ReturnStatement" -> bindReturnStatement(B, syn, ks, sink)
      [] syn.kind = "ConditionalStatement" -> bindConditionalStatement(B, syn, ks, sink)
      [] syn.kind = "ForLoopStatement" -> bindForLoopStatement(B, syn, sink)
      [] syn.kind = "ExpressionStatement" -> bindExpressionStatement(B, syn, ks, sink)
      [] OTHER -> Abort("bindStatement: unreachable", sink)

\* Binder::bindStatement
bindStatement(B, syn, sink) ==
    bindStatementOf(B, syn, bindParts(B, syn, 1, sink), sink)

\* the first loop of bindStatementList were it to declare every member
variableDeclsOfAll(members, i) ==
    [ j \in 1..(Len(members) + 1 - i) |-> Stmt("VariableDecl", members[i + j - 1].name, <<>>) ]

RECURSIVE variableDecls(_, _)
\* the first loop of Binder::bindStatementList over scope.members(), from member i on
variableDecls(members, i) ==
    IF i > Len(members) THEN <<>>
    ELSE (IF members[i].kind = "Variable"
          THEN <<Stmt("VariableDecl", members[i].name, <<>>)>> ELSE <<>>)
         \o variableDecls(members, i + 1)

RECURSIVE bindItems(_, _, _, _, _)
\* item i bound as st: the rest of the second loop of Binder::bindStatementList
boundItem(B, items, i, buffer, st) ==
    IF aborted(st) THEN st
    ELSE bindItems(B, items, i + 1, st.diags, Append(buffer, st.node))

\* the second loop of Binder::bindStatementList over the items, from item i on
bindItems(B, items, i, sink, buffer) ==
    IF i > Len(items) THEN Ret(Stmt("StatementList", "", buffer), sink)
    ELSE IF ~isStatement(items[i].kind) THEN bindItems(B, items, i + 1, sink, buffer)
    ELSE boundItem(B, items, i, buffer, bindStatement(B, items[i], sink))

\* Binder::bindStatementList
bindStatementList(B, items, sink) ==
    bindItems(B, items, 1, sink, variableDecls(B.members, 1))

---------------------------------------------------------------------------
(* Inputs: the syntax the entry points are applied to *)

\* concatenations carry 1..MaxElems elements
MaxElems == 2

\* the generic variable of type t
Var(t) == Ident(VarName(t))
A == Ident("a")
\* z and u are declared nowhere
Z == Ident("z")
U == Ident("u")
\* a reduction of the event variable e: binds to Invalid with BadUnaryExpression
BadOp == Unary("UnaryBitwiseAndExpression", Ident("e"))

\* operand pairs of every generic type, and pairs with an Invalid operand
GenericPairs == { <<Var(t1), Var(t2)>> : t1 \in GenericTypes, t2 \in GenericTypes }
InvalidPairs == { <<Z, A>>, <<A, Z>>, <<Z, U>>, <<BadOp, A>>, <<Ident("s"), A>> }
OperandPairs == GenericPairs \cup InvalidPairs

BinaryKinds ==
    ArithmeticKinds \cup ComparisonKinds \cup RelationalKinds \cup ShiftOrPowerKinds
        \cup AssignmentKinds

\* sequences over S of length lo..hi
SeqsOf(S, lo, hi) == UNION { [1..n -> S] : n \in lo..hi }

IndexLits == { IntLit(i) : i \in 0..MaxIndex }

LeafSyntax ==
    { A, Z, IntLit(1), RealLit, UnbasedLit(FALSE), UnbasedLit(TRUE),
      VecLit(3, FALSE, FALSE, 2), VecLitMissing, Ident("N"), Ident("f"), Paren(A),
      Syn("StringLiteralExpression", "", 0, getErrorType, "", <<>>),
      Syn("ScopedName", "", 0, getErrorType, "DoubleColon", <<Ident("pkg"), Ident("k")>>),
      Syn("ScopedName", "", 0, getErrorType, "DoubleColon", <<Ident("nopkg"), Ident("k")>>),
      Syn("ScopedName", "", 0, getErrorType, "Dot", <<Ident("pkg"), Ident("k")>>),
      Syn("TaggedUnionExpression", "", 0, getErrorType, "", <<>>) }
    \cup { Var(t) : t \in GenericTypes }

UnarySyntax ==
    { Unary(k, o) : k \in UnaryArithmeticKinds \cup UnaryReductionKinds,
                    o \in { Var(t) : t \in GenericTypes } \cup {Z, BadOp, Ident("s")} }

BinarySyntax ==
    { Binary(k, pr[1], pr[2]) : k \in BinaryKinds, pr \in OperandPairs }

\* the literal scenarios: a + b, a / 3'd2, x + y, z + 1
ScenarioSyntax ==
    { Binary("AddExpression", A, Ident("b")),
      Binary("DivideExpression", A, VecLit(3, FALSE, FALSE, 2)),
      Binary("AddExpression", Ident("x"), Ident("y")),
      Binary("AddExpression", Z, IntLit(1)) }

ConditionalSyntax ==
    { Cond(A, pr[1], pr[2]) : pr \in OperandPairs }
    \cup { Cond(c, A, Ident("b")) : c \in {Z, BadOp, Ident("y")} }

ConcatenationSyntax ==
    { Concat(es) :
        es \in SeqsOf({ Var(t) : t \in GenericTypes } \cup {Z}, 1, MaxElems) }

ReplicationSyntax ==
    { Repl(n, e) : n \in IndexLits \cup {IntLit(Uint16Range), IntLit(Uint16Range + 1), A, Z},
                   e \in { Var(t) : t \in GenericIntegralTypes }
                            \cup {Z, Concat(<<A, Ident("b")>>)} }

SelectSyntax ==
    { ElemSelect(b, "BitSelect", <<i>>) :
        b \in { Var(t) : t \in GenericTypes } \cup {Z, Ident("v"), Ident("s")},
        i \in {IntLit(0), A} }
    \cup
    { ElemSelect(b, k, <<l, r>>) :
        b \in {Ident("x"), Ident("v"), Ident("w")},
        k \in {"SimpleRangeSelect", "AscendingRangeSelect", "DescendingRangeSelect"},
        l \in IndexLits \cup {A}, r \in IndexLits }
    \cup
    { ElemSelect(Ident("v"), "SimpleRangeSelect", <<IntLit(7), IntLit(0)>>),
      ElemSelect(A, "SimpleRangeSelect", <<IntLit(1), Ident("b")>>),
      ElemSelect(A, "AscendingRangeSelect", <<IntLit(0), Ident("b")>>),
      ElemSelect(A, "SimpleRangeSelect", <<Z, IntLit(0)>>),
      ElemSelect(A, "NoSelect", <<IntLit(0)>>),
      Syn("IdentifierSelectName", "v", 0, getErrorType, "SimpleRangeSelect",
          <<IntLit(7), IntLit(0)>>),
      Syn("IdentifierSelectName", "z", 0, getErrorType, "BitSelect", <<IntLit(0)>>) }

CallSyntax ==
    { Invocation("f", args) : args \in SeqsOf({IntLit(1), A, Z}, 0, MaxArgs) }
    \cup
    { Invocation("h", <<A>>), Invocation("h", <<Ident("s")>>), Invocation("g", <<>>),
      Invocation("a", <<>>),
      Invocation("f", <<IntLit(1), IntLit(2), IntLit(3)>>) }

\* operators whose operands report without being Invalid: f(z, 1) + s
OrderingSyntax ==
    { Binary("AddExpression", Invocation("f", <<Z, IntLit(1)>>), Ident("s")),
      Binary("AddExpression", Invocation("f", <<Z, IntLit(1)>>),
             Invocation("f", <<IntLit(1), U>>)) }

\* logical operators over the 40-bit variable wide and a real or shortreal operand
WideSyntax ==
    { Binary(k, Ident("wide"), Var(t)) : k \in RelationalKinds,
                                         t \in {getRealType, getShortRealType} }
    \cup { Binary(k, Var(t), Ident("wide")) : k \in RelationalKinds,
                                              t \in {getRealType, getShortRealType} }

ExprSyntax ==
    LeafSyntax \cup UnarySyntax \cup BinarySyntax \cup ScenarioSyntax \cup OrderingSyntax
        \cup WideSyntax
        \cup ConditionalSyntax \cup ConcatenationSyntax \cup ReplicationSyntax
        \cup SelectSyntax \cup CallSyntax

\* expressions bound as constants: parameter values, select bounds, counts
ConstantSyntax ==
    { IntLit(1), Ident("N"), A, Z, Binary("AddExpression", Ident("N"), IntLit(1)),
      Repl(IntLit(2), A) }

\* expressions bound into a destination type
AssignedSyntax ==
    { Var(t) : t \in GenericTypes }
    \cup { Z, IntLit(1), RealLit, Binary("AddExpression", A, Ident("b")), Ident("s"),
           Ident("e"), BadOp, Cond(Z, A, Ident("b")), Invocation("g", <<>>) }

DstTypes == GenericTypes \cup { getIntType, StringType, EventType }

StatementSyntax ==
    { ReturnStmt(<<e>>) : e \in {A, Z, IntLit(1), Ident("y"), Ident("s"), Ident("e")} }
    \cup { ReturnStmt(<<>>), ForStmt, DataDecl }
    \cup { ExprStmt(e) : e \in {A, Z, Binary("AssignmentExpression", A, Ident("b"))} }
    \cup { CondStmt(c, ExprStmt(A), els) :
             c \in {A, Z}, els \in {<<>>, <<ExprStmt(U)>>, <<ForStmt>>} }

ItemLists ==
    { <<>>, <<ExprStmt(A)>>, <<DataDecl, ExprStmt(Z), ExprStmt(U)>>,
      <<ExprStmt(A), DataDecl, ForStmt>>, <<ReturnStmt(<<A>>), ExprStmt(Ident("b"))>>,
      <<ExprStmt(Z), ReturnStmt(<<>>), ExprStmt(U)>> }

\* the block whose items a statement list is bound from
Block(items) == Syn("SequentialBlock", "", 0, getErrorType, "", items)

NoSyntax == Syn("None", "", 0, getErrorType, "", <<>>)

\* what the sink may hold when the Binder is constructed: nothing, or a
\* diagnostic an earlier binder of the same compilation reported
PriorSinks == { <<>>, <<Diag("UndeclaredIdentifier", "earlier", 0, 0, <<>>)>> }

---------------------------------------------------------------------------
(* The state machine: a Binder is constructed on a scope, then one of its   *)
(* entry points is called                                                   *)

\* no member of CommandLine has been called
NoCall ==
    [op |-> "none", arg |-> <<>>, thrown |-> "none", returned |-> FALSE,
     optionMap |-> <<>>, errors |-> <<>>]

\* a CommandLine as constructed: no option, no positional, no error
CommandLineConstructed ==
    /\ optionMap = <<>>
    /\ positional = FALSE
    /\ programName = <<>>
    /\ errors = <<>>
    /\ options = 0
    /\ called = NoCall
    /\ argList = <<>>
    /\ ptr = 0
    /\ current = <<>>
    /\ storage = <<>>
    /\ pc = "idle"

Init ==
    /\ CommandLineConstructed
    /\ scope \in Scopes
    /\ dflt \in BOOLEAN
    /\ nullFaults \in BOOLEAN
    /\ diags \in PriorSinks
    /\ mark = 0
    /\ entry = "none"
    /\ syntax = NoSyntax
    /\ dstType = getErrorType
    /\ result = NullNode
    /\ calls = <<>>

\* the entry point `name`, called with syn (and type), hands back r; one entry
\* point is called per Binder (the guard entry = "none" of the actions)
Returns(name, syn, type, r) ==
    /\ entry' = name
    /\ syntax' = syn
    /\ dstType' = type
    /\ mark' = Len(diags)
    /\ result' = r.node
    /\ diags' = r.diags
    /\ UNCHANGED <<scope, dflt, nullFaults, calls>>
    /\ UNCHANGED <<commandLineVars, scanVars>>

BindConstantExpression ==
    /\ entry = "none"
    /\ \E syn \in ConstantSyntax :
        Returns("bindConstantExpression", syn, getErrorType,
                bindConstantExpression(scope, syn, diags))

BindSelfDeterminedExpression ==
    /\ entry = "none"
    /\ \E syn \in ExprSyntax :
        Returns("bindSelfDeterminedExpression", syn, getErrorType,
                bindSelfDeterminedExpression(scope, syn, diags))

BindAssignmentLikeContext ==
    /\ entry = "none"
    /\ \E syn \in AssignedSyntax, type \in DstTypes :
        Returns("bindAssignmentLikeContext", syn, type,
                bindAssignmentLikeContext(scope, syn, type, diags))

BindStatement ==
    /\ entry = "none"
    /\ \E syn \in StatementSyntax :
        Returns("bindStatement", syn, getErrorType, bindStatement(scope, syn, diags))

BindStatementList ==
    /\ entry = "none"
    /\ \E items \in ItemLists :
        Returns("bindStatementList", Block(items), getErrorType,
                bindStatementList(scope, items, diags))

Next ==
    \/ BindConstantExpression
    \/ BindSelfDeterminedExpression
    \/ BindAssignmentLikeContext
    \/ BindStatement
    \/ BindStatementList

Spec == Init /\ [][Next]_vars

---------------------------------------------------------------------------
(* The propagator on its own: an expression is bound by bindAndPropagate,   *)
(* then propagateAssignmentLike is called on it, up to MaxCalls times, with *)
(* types drawn from LhsTypes                                                *)

\* propagateAssignmentLike is called at most MaxCalls times on an expression
MaxCalls == 2

\* the expressions the propagator is called on: variables of every generic
\* type, literals, and operators over them
PropagatedSyntax ==
    { Var(t) : t \in GenericTypes }
    \cup { A, Ident("x"), Ident("y"), IntLit(1), RealLit, UnbasedLit(TRUE),
           Binary("AddExpression", A, Ident("b")),
           Binary("LogicalShiftLeftExpression", Ident("b"), A),
           Binary("EqualityExpression", A, Ident("b")),
           Unary("UnaryMinusExpression", Ident("b")),
           Cond(A, Ident("b"), Ident("x")),
           Concat(<<A, Ident("b")>>) }

\* the types it is handed: the generic types, int, and an integral type wider
\* than real
LhsTypes == GenericTypes \cup { getIntType, getType(100, FALSE, TRUE) }

BindAndPropagate ==
    /\ entry = "none"
    /\ \E syn \in PropagatedSyntax :
        Returns("bindAndPropagate", syn, getErrorType, bindAndPropagate(scope, syn, diags))

\* propagateAssignmentLike(rhs, lhsType) on the expression bound, which its
\* callers hand over only when it is not Invalid
PropagateAssignmentLike ==
    /\ entry = "bindAndPropagate"
    /\ result.kind # "Abort"
    /\ ~bad(result)
    /\ Len(calls) < MaxCalls
    /\ \E lhsType \in LhsTypes :
        LET pr == propagateAssignmentLike(result, lhsType)
        IN  /\ result' = pr.node
            /\ calls' = Append(calls, [lhsType |-> lhsType, changed |-> pr.changed,
                                       before |-> result, after |-> pr.node])
    /\ UNCHANGED <<scope, dflt, nullFaults, diags, mark, entry, syntax, dstType>>
    /\ UNCHANGED <<commandLineVars, scanVars>>

NextPropagate ==
    \/ BindAndPropagate
    \/ PropagateAssignmentLike

SpecPropagate == Init /\ [][NextPropagate]_vars

---------------------------------------------------------------------------
(* CommandLine: option registration and argument parsing.  A string is the
   sequence of its characters. *)

\* string_view::npos
npos == 0 - 1

\* s.find_first_of(c): offset of the first c in s
find_first_of(s, c) ==
    LET hits == { i \in 1..Len(s) : s[i] = c }
    IN  IF hits = {} THEN npos ELSE (CHOOSE i \in hits : \A j \in hits : i <= j) - 1

\* s.substr(pos, n) and s.substr(pos), for pos within s
substr(s, pos, n) == SubSeq(s, pos + 1, IF pos + n < Len(s) THEN pos + n ELSE Len(s))
substrFrom(s, pos) == SubSeq(s, pos + 1, Len(s))

\* optionMap.find(key) != end()
registered(map, key) == key \in DOMAIN map

\* optionMap after try_emplace(key, option) of a key that is not in it
emplaced(map, key, option) ==
    [ k \in DOMAIN map \cup {key} |-> IF k = key THEN option ELSE map[k] ]

\* what a member handed back: the fields it left, and what it threw if it did
Threw(map, what) == [optionMap |-> map, thrown |-> what]

RECURSIVE addInternalNames(_, _, _)
\* the while loop of CommandLine::addInternal, with `name` what is left of the
\* list and map the optionMap the earlier iterations left
addInternalNames(name, option, map) ==
    IF name = <<>> THEN Threw(map, "none")
    ELSE LET index == find_first_of(name, ",")
             first == IF index # npos THEN substr(name, 0, index) ELSE name
             rest == IF index # npos THEN substrFrom(name, index + 1) ELSE name
         IN  IF first = <<>> \/ first[1] # "-" THEN Threw(map, "invalid_argument")
             \* line 97 takes substr(1) of name, not of curr
             ELSE IF rest = <<>> THEN Threw(map, "out_of_range")
             ELSE LET curr == substrFrom(rest, 1)
                      key == IF curr[1] = "-" THEN substrFrom(curr, 1) ELSE curr
                  IN  IF curr = <<>> THEN Threw(map, "invalid_argument")
                      ELSE IF registered(map, key) THEN Threw(map, "invalid_argument")
                      ELSE addInternalNames(rest, option, emplaced(map, key, option))

\* CommandLine::addInternal(name, storage, desc, valueName); option is the
\* Option it allocates
addInternal(name, option, map) ==
    IF name = <<>> THEN Threw(map, "invalid_argument")
    ELSE addInternalNames(name, option, map)

\* fs::path(arg).filename().string(): what follows the last separator
filename(arg) ==
    LET seps == { i \in 1..Len(arg) : arg[i] = "/" }
    IN  IF seps = {} THEN arg
        ELSE substrFrom(arg, CHOOSE i \in seps : \A j \in seps : j <= i)

\* CommandLine::findOption(arg, value): the Option registered under arg with
\* its "=value" stripped; 0 for nullptr
findOption(map, arg) ==
    LET equalsIndex == find_first_of(arg, "=")
        key == IF equalsIndex # npos THEN substr(arg, 0, equalsIndex) ELSE arg
    IN  IF arg = <<>> THEN 0
        ELSE IF registered(map, key) THEN map[key] ELSE 0

\* CommandLine::tryGroupOrPrefix: nullptr
tryGroupOrPrefix(name) == 0

\* the two messages of parse; the suggestion findNearestMatch adds to the
\* text of the first is not part of the record
UnknownArgument(program, name) ==
    [kind |-> "unknown command line argument", program |-> program, arg |-> name]
PositionalNotAllowed(program, arg) ==
    [kind |-> "positional arguments are not allowed", program |-> program, arg |-> arg]

\* the for loop of parse(span) as it is after argument i - 1
Scanned(positionalArgs, doubleDash, errs) ==
    [positionalArgs |-> positionalArgs, doubleDash |-> doubleDash, errors |-> errs]

RECURSIVE parseArguments(_, _, _, _, _)
\* the for loop of CommandLine::parse(span) from args[i - 1] on; the loop
\* starts at args.begin()
parseArguments(args, i, map, program, sc) ==
    IF i > Len(args) THEN sc
    ELSE LET arg == args[i]
             longName == arg[2] = "-"
             name == IF longName THEN substrFrom(arg, 2) ELSE substrFrom(arg, 1)
             found == findOption(map, name)
             option == IF found = 0 /\ ~longName THEN tryGroupOrPrefix(name) ELSE found
         IN  IF arg = <<>> THEN parseArguments(args, i + 1, map, program, sc)
             ELSE IF arg[1] # "-" \/ Len(arg) = 1 \/ sc.doubleDash
             THEN parseArguments(args, i + 1, map, program,
                                 [sc EXCEPT !.positionalArgs = Append(@, arg)])
             ELSE IF arg = <<"-", "-">>
             THEN parseArguments(args, i + 1, map, program, [sc EXCEPT !.doubleDash = TRUE])
             ELSE IF option = 0
             THEN parseArguments(args, i + 1, map, program,
                                 [sc EXCEPT !.errors =
                                      Append(@, UnknownArgument(program, name))])
             \* option->set(value) does nothing
             ELSE parseArguments(args, i + 1, map, program, sc)

\* what parse handed back
Parsed(program, errs, thrown) ==
    [programName |-> program, errors |-> errs, thrown |-> thrown,
     returned |-> thrown = "none" /\ errs = <<>>]

\* CommandLine::parse(span<const string_view> args)
parse(args, map, pos, program, errs) ==
    IF args = <<>> THEN Parsed(program, errs, "runtime_error")
    ELSE LET name == filename(args[1])
             sc == parseArguments(args, 1, map, name, Scanned(<<>>, FALSE, errs))
         IN  IF pos \/ sc.positionalArgs = <<>> THEN Parsed(name, sc.errors, "none")
             ELSE Parsed(name,
                         Append(sc.errors, PositionalNotAllowed(name, sc.positionalArgs[1])),
                         "none")

\* the member `op` was called with arg and threw or returned
Called(op, arg, thrown, returned) ==
    [op |-> op, arg |-> arg, thrown |-> thrown, returned |-> returned,
     optionMap |-> optionMap, errors |-> errors]

\* up to MaxOptions options are added, arguments are parsed
\* while fewer than MaxErrors errors are recorded; an argument vector has up to
\* MaxArgc arguments
MaxOptions == 2
MaxErrors == 1
MaxArgc == 2

\* the name lists options are registered under
NameLists ==
    { <<>>, <<"-", "a">>, <<"-", "-", "a">>, <<"a">>, <<"-">>, <<"-", "-">>,
      <<"-", "a", ",">>, <<"-", "a", ",", "-", "b">> }

\* the arguments of a command line
ArgStrings ==
    { <<"p">>, <<"/", "p">>, <<>>, <<"-">>, <<"-", "-">>, <<"-", "a", "=", "b">>,
      <<"-", "-", "c">> }
ArgVectors == SeqsOf(ArgStrings, 0, MaxArgc)

\* a call of one of the add overloads, which hand name to addInternal
AddInternal ==
    /\ pc = "idle"
    /\ options < MaxOptions
    /\ \E name \in NameLists :
        LET r == addInternal(name, options + 1, optionMap)
        IN  /\ optionMap' = r.optionMap
            /\ options' = options + 1
            /\ called' = Called("addInternal", name, r.thrown, FALSE)
    /\ UNCHANGED <<positional, programName, errors, scanVars>>
    /\ UNCHANGED <<scope, dflt, nullFaults, diags, mark, entry, syntax, dstType, result, calls>>

\* CommandLine::setPositional registers the option positional arguments go to
SetPositional ==
    /\ pc = "idle"
    /\ ~positional
    /\ positional' = TRUE
    /\ called' = Called("setPositional", <<>>, "none", FALSE)
    /\ UNCHANGED <<optionMap, programName, errors, options, scanVars>>
    /\ UNCHANGED <<scope, dflt, nullFaults, diags, mark, entry, syntax, dstType, result, calls>>

\* CommandLine::parse(span<const string_view> args)
Parse ==
    /\ pc = "idle"
    /\ Len(errors) < MaxErrors
    /\ \E args \in ArgVectors :
        LET r == parse(args, optionMap, positional, programName, errors)
        IN  /\ programName' = r.programName
            /\ errors' = r.errors
            /\ called' = Called("parse", args, r.thrown, r.returned)
    /\ UNCHANGED <<optionMap, positional, options, scanVars>>
    /\ UNCHANGED <<scope, dflt, nullFaults, diags, mark, entry, syntax, dstType, result, calls>>

\* the Binder of a program that has only constructed it
BinderConstructed ==
    /\ scope = Scope(Members, NoSymbol)
    /\ dflt = FALSE
    /\ nullFaults = FALSE
    /\ diags = <<>>
    /\ mark = 0
    /\ entry = "none"
    /\ syntax = NoSyntax
    /\ dstType = getErrorType
    /\ result = NullNode
    /\ calls = <<>>

InitCommandLine == CommandLineConstructed /\ BinderConstructed
NextCommandLine == AddInternal \/ SetPositional \/ Parse
SpecCommandLine == InitCommandLine /\ [][NextCommandLine]_vars

---------------------------------------------------------------------------
(* CommandLine::parse(string_view): splitting a string into arguments *)

\* an argument string has up to MaxLen characters; MaxOverrun is how many
\* characters of the memory behind it can be read before the process faults
MaxLen == 3
MaxOverrun == 2

\* the characters of argument strings: a letter, whitespace, the escape
\* character and the two quotes
Characters == {"a", " ", "\\", "'", "\""}
ArgLists == SeqsOf(Characters, 0, MaxLen)

\* what the memory behind the string holds
Memory == [1..MaxOverrun -> Characters]

\* isWhitespace(c)
isWhitespace(c) == c = " "

\* the activation after one turn of the for loop, ptr++ done; fault: a
\* character outside the memory that can be read was read
Turn(p, cur, sto, fault) == [ptr |-> p, current |-> cur, storage |-> sto, fault |-> fault]

\* *ptr at offset p of text
at(text, p) == text[p + 1]

RECURSIVE singleQuoted(_, _, _, _, _)
\* while (++ptr != end && *ptr != '\'') current += *ptr; with ptr at offset p
singleQuoted(text, end, p, cur, sto) ==
    IF p + 1 = end THEN Turn(p + 2, cur, sto, FALSE)
    ELSE IF p + 1 >= Len(text) THEN Turn(p + 1, cur, sto, TRUE)
    ELSE IF at(text, p + 1) = "'" THEN Turn(p + 2, cur, sto, FALSE)
    ELSE singleQuoted(text, end, p + 1, Append(cur, at(text, p + 1)), sto)

RECURSIVE doubleQuoted(_, _, _, _, _)
\* the while loop of the double quote case, with ptr at offset p
doubleQuoted(text, end, p, cur, sto) ==
    IF p + 1 = end THEN Turn(p + 2, cur, sto, FALSE)
    ELSE IF p + 1 >= Len(text) THEN Turn(p + 1, cur, sto, TRUE)
    ELSE IF at(text, p + 1) = "\"" THEN Turn(p + 2, cur, sto, FALSE)
    ELSE IF at(text, p + 1) = "\\" /\ p + 2 # end
    THEN IF p + 2 >= Len(text) THEN Turn(p + 2, cur, sto, TRUE)
         ELSE IF at(text, p + 2) \in {"\\", "\""}
         THEN doubleQuoted(text, end, p + 2, Append(cur, at(text, p + 2)), sto)
         ELSE doubleQuoted(text, end, p + 1, Append(cur, at(text, p + 1)), sto)
    ELSE doubleQuoted(text, end, p + 1, Append(cur, at(text, p + 1)), sto)

\* one turn of the for loop of parse(string_view) with ptr at offset p, and
\* the ptr++ that follows it; text is the string and the memory behind it
scanTurn(text, end, p, cur, sto) ==
    IF p >= Len(text) THEN Turn(p, cur, sto, TRUE)
    ELSE IF isWhitespace(at(text, p))
    THEN Turn(p + 1, <<>>, IF cur # <<>> THEN Append(sto, cur) ELSE sto, FALSE)
    ELSE IF at(text, p) = "\\"
    THEN IF p + 1 = end THEN Turn(p + 2, cur, sto, FALSE)
         ELSE IF p + 1 >= Len(text) THEN Turn(p + 1, cur, sto, TRUE)
         ELSE Turn(p + 2, Append(cur, at(text, p + 1)), sto, FALSE)
    ELSE IF at(text, p) = "'" THEN singleQuoted(text, end, p, cur, sto)
    ELSE IF at(text, p) = "\"" THEN doubleQuoted(text, end, p, cur, sto)
    ELSE Turn(p + 1, Append(cur, at(text, p)), sto, FALSE)

\* parse(string_view argList) is called: lines 128-132 up to the loop test
ParseArgList ==
    /\ pc = "idle"
    /\ called.op = "none"
    /\ \E str \in ArgLists :
        /\ argList' = str
        /\ called' = Called("parse(string_view)", str, "none", FALSE)
    /\ ptr' = 0
    /\ current' = <<>>
    /\ storage' = <<>>
    /\ pc' = "scan"
    /\ UNCHANGED <<optionMap, positional, programName, errors, options>>
    /\ UNCHANGED <<scope, dflt, nullFaults, diags, mark, entry, syntax, dstType, result, calls>>

\* one turn of the for loop: ptr != end.  A turn that begins behind the end
\* of the string reads what the memory there holds.
ScanCharacter ==
    /\ pc = "scan"
    /\ ptr # Len(argList)
    /\ \E memory \in Memory :
        LET t == scanTurn(argList \o memory, Len(argList), ptr, current, storage)
        IN  /\ ptr' = t.ptr
            /\ current' = t.current
            /\ storage' = t.storage
            /\ pc' = IF t.fault THEN "fault" ELSE "scan"
    /\ UNCHANGED <<argList, commandLineVars>>
    /\ UNCHANGED <<scope, dflt, nullFaults, diags, mark, entry, syntax, dstType, result, calls>>

\* ptr == end: the loop is left, and lines 172-179 hand the arguments to
\* parse(span)
ParseArguments ==
    /\ pc = "scan"
    /\ ptr = Len(argList)
    /\ LET args == IF current # <<>> THEN Append(storage, current) ELSE storage
           r == parse(args, optionMap, positional, programName, errors)
       IN  /\ storage' = args
           /\ programName' = r.programName
           /\ errors' = r.errors
           /\ called' = [called EXCEPT !.thrown = r.thrown, !.returned = r.returned]
    /\ pc' = "idle"
    /\ UNCHANGED <<argList, ptr, current, optionMap, positional, options>>
    /\ UNCHANGED <<scope, dflt, nullFaults, diags, mark, entry, syntax, dstType, result, calls>>

NextTokenizer == ParseArgList \/ ScanCharacter \/ ParseArguments
SpecTokenizer == InitCommandLine /\ [][NextTokenizer]_vars

---------------------------------------------------------------------------
(* Properties.  They are stated on the state an entry point leaves: the     *)
(* syntax it was handed, the node it returned, and the sink.                *)

\* the sink as it was when the entry point was called
before == SubSeq(diags, 1, mark)
\* the diagnostics the entry point's traversal reported
added == SubSeq(diags, mark + 1, Len(diags))

\* the entry point returned a node: the traversal was not abandoned
returned == entry # "none" /\ result.kind # "Abort"

\* an expression entry point that binds syntax as it stands was called
boundExpression == entry \in {"bindSelfDeterminedExpression", "bindConstantExpression"}

\* the children of the expression bound last, as its bind function bound them
boundChildren ==
    LET formals == IF syntax.kind = "InvocationExpression"
                   THEN lookup(scope, syntax.name).formals ELSE <<>>
    IN  IF syntax.kind = "InvocationExpression" /\ formals = <<>> THEN <<>>
        ELSE bindChildren(scope, childrenOf(syntax), 1, formals, before)

\* all children were bound, none abandoning the traversal
childrenBound ==
    /\ Len(boundChildren) = Len(childrenOf(syntax))
    /\ ~abortIn(boundChildren)

\* some bound child is Invalid
invalidChild ==
    \E i \in 1..Len(boundChildren) :
        ~aborted(boundChildren[i]) /\ bad(boundChildren[i].node)

\* every bound child is of integral type
integralChildren ==
    /\ childrenBound
    /\ \A i \in 1..Len(boundChildren) : isIntegral(boundChildren[i].node.type)

\* type of bound child i
childType(i) == boundChildren[i].node.type

Abs(n) == IF n < 0 THEN 0 - n ELSE n

RECURSIVE sumWidths(_)
sumWidths(ks) == IF ks = <<>> THEN 0 ELSE width(ks[1].node.type) + sumWidths(Tail(ks))

\* expression kinds with operands the quarantine speaks of
OperatorKinds ==
    UnaryArithmeticKinds \cup UnaryReductionKinds \cup BinaryKinds
CompositeKinds ==
    OperatorKinds
        \cup {"ConditionalExpression", "ConcatenationExpression",
              "MultipleConcatenationExpression", "ElementSelectExpression",
              "IdentifierSelectName", "InvocationExpression"}

\* C1 (as the specification states it): when an expression of any composite
\* kind has a bound child that is Invalid, the node returned for it is Invalid
\* and its diagnostics are those of binding its children.  The ternary, the
\* replication and the subroutine call do not look at bad() of what they bound.
C1_TypeErrorQuarantine ==
    (boundExpression /\ returned /\ syntax.kind \in CompositeKinds /\ invalidChild)
        => (bad(result) /\ diags = sinkAfter(boundChildren, before))

\* C2: an arithmetic operator on integral operands of types a and b binds to a
\* node of integral type of width max(width a, width b), signed iff both are
\* signed, four-state iff one of them is or the operator is division, and
\* reports nothing; a + b and a / 3'd2 are (8, unsigned, four-state).
C2_ArithmeticResultType ==
    /\ (boundExpression /\ syntax.kind \in ArithmeticKinds /\ integralChildren)
        => /\ returned
           /\ result.kind = "BinaryExpression"
           /\ isIntegral(result.type)
           /\ width(result.type) = Max(width(childType(1)), width(childType(2)))
           /\ isSigned(result.type) = (isSigned(childType(1)) /\ isSigned(childType(2)))
           /\ isFourState(result.type) =
                (isFourState(childType(1)) \/ isFourState(childType(2))
                    \/ syntax.kind = "DivideExpression")
           /\ diags = sinkAfter(boundChildren, before)
    /\ (boundExpression
          /\ syntax \in { Binary("AddExpression", A, Ident("b")),
                          Binary("DivideExpression", A, VecLit(3, FALSE, FALSE, 2)) })
        => (result.type = getType(8, FALSE, TRUE) /\ added = <<>>)

\* C2 happens: a division was bound on two-state integral operands of
\* different widths, the narrower signed and the wider unsigned, and came out
\* four-state
C2_Witness ==
    /\ boundExpression
    /\ syntax.kind = "DivideExpression"
    /\ integralChildren
    /\ width(childType(1)) < width(childType(2))
    /\ isSigned(childType(1)) /\ ~isSigned(childType(2))
    /\ ~isFourState(childType(1)) /\ ~isFourState(childType(2))
    /\ isFourState(result.type)

\* C3 (as the specification states it): a simple range select [msb:lsb] on an
\* integral base with constant bounds has width |msb - lsb| + 1, an indexed
\* select [base +: n] or [base -: n] has width n, a bit select has width 1.
\* The code computes msb - lsb (or lsb - msb), without the + 1.
C3_SelectWidthLaw ==
    (boundExpression /\ returned /\ ~bad(result)
        /\ syntax.kind \in {"ElementSelectExpression", "IdentifierSelectName"}
        /\ childrenBound /\ isIntegral(childType(1)))
        => CASE syntax.sel = "SimpleRangeSelect" ->
                    width(result.type)
                        = Abs(eval(boundChildren[2].node) - eval(boundChildren[3].node)) + 1
             [] syntax.sel \in {"AscendingRangeSelect", "DescendingRangeSelect"} ->
                    width(result.type) = eval(boundChildren[3].node)
             [] syntax.sel = "BitSelect" -> width(result.type) = 1
             [] OTHER -> TRUE

\* C4 (as amended): x + y, x an int and y a real, binds to a binary node of
\* type real (width 64) and reports nothing.
C4_IntPlusRealIsReal ==
    (boundExpression /\ syntax = Binary("AddExpression", Ident("x"), Ident("y")))
        => /\ returned
           /\ result.kind = "BinaryExpression"
           /\ result.type = getRealType
           /\ width(result.type) = 64
           /\ added = <<>>

\* C4 (as the specification states it): x + y binds to a node of type
\* shortreal (width 32) and reports nothing.
C4_IntPlusRealIsShortReal ==
    (boundExpression /\ syntax = Binary("AddExpression", Ident("x"), Ident("y")))
        => /\ returned
           /\ result.kind = "BinaryExpression"
           /\ result.type = getShortRealType
           /\ width(result.type) = 32
           /\ added = <<>>

\* C4 happens: x + y was bound, x of type int and y of type real
C4_Witness ==
    /\ boundExpression
    /\ syntax = Binary("AddExpression", Ident("x"), Ident("y"))
    /\ childrenBound
    /\ childType(1) = getIntType
    /\ childType(2) = getRealType
    /\ result.kind = "BinaryExpression"

\* C5 (as the specification states it): for a shift or power operator on
\* integral operands, replacing the right operand by one of another width but
\* the same signedness and four-state-ness leaves the type of the bound node
\* unchanged.  The code takes the wider of the two operands' widths.
C5_ShiftRhsSelfDetermined ==
    (boundExpression /\ returned /\ syntax.kind \in ShiftOrPowerKinds /\ integralChildren
        /\ syntax.kids[2] \in { Var(t) : t \in GenericIntegralTypes })
        => \A t \in GenericIntegralTypes :
              (isSigned(t) = isSigned(childType(2))
                  /\ isFourState(t) = isFourState(childType(2)))
              => bindSelfDeterminedExpression(
                     scope, Binary(syntax.kind, syntax.kids[1], Var(t)), before).node.type
                   = result.type

\* C6 (as the specification states it): a concatenation of integral elements
\* binds to an unsigned integral node whose width is the sum of the elements'
\* widths, two-state iff every element is two-state.  The code asks for
\* getType(totalWidth, false): no element's four-state-ness enters the type.
C6_ConcatenationWidthLaw ==
    (boundExpression /\ returned /\ syntax.kind = "ConcatenationExpression"
        /\ integralChildren)
        => /\ isIntegral(result.type)
           /\ ~isSigned(result.type)
           /\ width(result.type) = sumWidths(boundChildren)
           /\ (~isFourState(result.type))
                = (\A i \in 1..Len(boundChildren) : ~isFourState(childType(i)))

\* the traversal was abandoned at a dispatch arm the code marks unreachable
unreachableArm ==
    result.name \in {"bindLiteral: unreachable", "bindSimpleName: unreachable",
                     "bindSelectExpression: unreachable", "bindName: unreachable",
                     "bindExpression: unreachable", "bindStatement: unreachable"}

\* C7 (as the specification states it): every entry point returns a node, never
\* null, and abandons the traversal at an unreachable dispatch arm only.  The
\* ASSERT of bindSubroutineCall fails for a name that is no subroutine.
C7_Totality ==
    entry # "none" => /\ result # NullNode
                      /\ (result.kind = "Abort" => unreachableArm)

\* C8: when an operand of a unary, arithmetic, comparison, logical, shift,
\* power or assignment operator is Invalid, the operator binds to Invalid and
\* reports nothing beyond what binding the operands reported; z + 1 binds to
\* Invalid with the one diagnostic UndeclaredIdentifier("z").
C8_NoCascadeInOperators ==
    /\ (boundExpression /\ syntax.kind \in OperatorKinds /\ childrenBound /\ invalidChild)
        => /\ returned
           /\ bad(result)
           /\ diags = sinkAfter(boundChildren, before)
    /\ (boundExpression /\ syntax = Binary("AddExpression", Z, IntLit(1)))
        => /\ returned
           /\ bad(result)
           /\ added = <<Diag("UndeclaredIdentifier", "z", 0, 0, <<>>)>>

\* C8 happens: a binary operator was bound whose right operand alone is
\* Invalid, and the sink grew by the one diagnostic of that operand
C8_Witness ==
    /\ boundExpression
    /\ syntax.kind \in BinaryKinds
    /\ childrenBound
    /\ ~bad(boundChildren[1].node)
    /\ bad(boundChildren[2].node)
    /\ bad(result)
    /\ Len(added) = 1

\* what bindAndPropagate hands bindAssignmentLikeContext for the syntax bound last
assigned == bindAndPropagate(scope, syntax, before)

\* C9: bindAssignmentLikeContext of an expression of type S into type D: when
\* the expression is Invalid it is returned and nothing is reported; when D is
\* not assignment compatible from S exactly one diagnostic is reported,
\* NoImplicitConversion if D is cast compatible from S and BadAssignment if
\* not, and an Invalid node wrapping the expression is returned; when D is
\* assignment compatible from S nothing is reported and the result is valid.
C9_AssignmentLikeDiagnostics ==
    (entry = "bindAssignmentLikeContext" /\ ~aborted(assigned))
        => /\ returned
           /\ bad(assigned.node) => (result = assigned.node /\ diags = assigned.diags)
           /\ (~bad(assigned.node) /\ ~isAssignmentCompatible(dstType, assigned.node.type))
                => /\ bad(result)
                   /\ result.operands = <<assigned.node>>
                   /\ Len(diags) = Len(assigned.diags) + 1
                   /\ SubSeq(diags, 1, Len(assigned.diags)) = assigned.diags
                   /\ diags[Len(diags)].code =
                        (IF isCastCompatible(dstType, assigned.node.type)
                         THEN "NoImplicitConversion" ELSE "BadAssignment")
           /\ (~bad(assigned.node) /\ isAssignmentCompatible(dstType, assigned.node.type))
                => (~bad(result) /\ diags = assigned.diags)

\* C9 happens: a valid expression was bound into a type that is cast
\* compatible but not assignment compatible, and the conversion was reported
C9_Witness ==
    /\ entry = "bindAssignmentLikeContext"
    /\ ~aborted(assigned)
    /\ ~bad(assigned.node)
    /\ ~isAssignmentCompatible(dstType, assigned.node.type)
    /\ isCastCompatible(dstType, assigned.node.type)
    /\ bad(result)
    /\ added = <<Diag("NoImplicitConversion", "", 0, 0, <<>>)>>

\* C10: a call of a subroutine with more actual than formal arguments binds to
\* Invalid and reports exactly one diagnostic, TooManyArguments with the
\* number of formal and then of actual arguments (2 and 3 for f(1, 2, 3));
\* no argument is bound, so none is reported on.
C10_TooManyArguments ==
    /\ (boundExpression /\ syntax.kind = "InvocationExpression"
          /\ lookup(scope, syntax.name).kind = "Subroutine"
          /\ Len(syntax.kids) > Len(lookup(scope, syntax.name).formals))
        => /\ returned
           /\ bad(result)
           /\ result.operands = <<>>
           /\ added = <<Diag("TooManyArguments", "", Len(lookup(scope, syntax.name).formals),
                             Len(syntax.kids), <<>>)>>
    /\ (boundExpression
          /\ syntax = Invocation("f", <<IntLit(1), IntLit(2), IntLit(3)>>))
        => (bad(result) /\ added = <<Diag("TooManyArguments", "", 2, 3, <<>>)>>)

\* C10 happens: f, of two formal arguments, was called with three, one of
\* them an undeclared name
C10_Witness ==
    /\ boundExpression
    /\ syntax.kind = "InvocationExpression"
    /\ syntax.name = "f"
    /\ Len(syntax.kids) = 3
    /\ syntax.kids[1] = Z
    /\ bad(result)
    /\ Len(added) = 1

\* call i of propagateAssignmentLike and the one before it were handed the
\* same type
repeated(i) == i > 1 /\ calls[i].lhsType = calls[i - 1].lhsType

\* C11 (as amended): a second propagateAssignmentLike with the same type T
\* leaves the expression, its type included, as the first left it; it returns
\* false, except that it returns true again when T is wider than real (64
\* bits) and the expression is of a real type.
C11_WideningIdempotent ==
    \A i \in 1..Len(calls) :
        repeated(i)
            => /\ calls[i].after = calls[i].before
               /\ calls[i].changed
                    = (width(calls[i].lhsType) > 64 /\ isReal(calls[i].before.type))

\* C11 (as the claim adds): ... and the second call returns false.  With a
\* type wider than real (64 bits) and a real on either side the width test
\* of the code succeeds every time, and it returns true again.
C11_SecondCallReturnsFalse ==
    \A i \in 1..Len(calls) :
        repeated(i) => (calls[i].after = calls[i].before /\ ~calls[i].changed)

\* C11 happens: propagateAssignmentLike was called twice with the same type,
\* the first call widening an integral expression and the second returning
\* false
C11_Witness ==
    /\ Len(calls) = 2
    /\ repeated(2)
    /\ calls[1].changed
    /\ isIntegral(calls[1].before.type)
    /\ width(calls[1].after.type) > width(calls[1].before.type)
    /\ ~calls[2].changed

\* C12 (as the specification states it): an expression bound to an integral
\* type has width at least 1.  A range select with msb = lsb and a replication
\* with count 0 (or 65536) are bound to integral types of width 0.
C12_IntegralWidthPositive ==
    (boundExpression /\ returned /\ isIntegral(result.type)) => width(result.type) >= 1

\* the value of the return statement bound last, as bindAssignmentLikeContext
\* binds it against the return type of the enclosing subroutine
valueBound ==
    bindAssignmentLikeContext(scope, syntax.kids[1], findAncestor(scope).type, before)

\* C13: a return statement bound in a scope with no enclosing subroutine gives
\* an Invalid statement and the one diagnostic ReturnNotInSubroutine, its
\* value not being bound; in a subroutine, its value is bound by
\* bindAssignmentLikeContext against the subroutine's return type and a
\* ReturnStatement holding that expression is returned.
C13_ReturnStatement ==
    (entry = "bindStatement" /\ syntax.kind = "ReturnStatement")
        => /\ findAncestor(scope) = NoSymbol
                => /\ result = badStmt(<<>>)
                   /\ added = <<Diag("ReturnNotInSubroutine", "", 0, 0, <<>>)>>
           /\ (findAncestor(scope) # NoSymbol /\ syntax.kids # <<>>
                  /\ ~aborted(valueBound))
                => /\ result.kind = "ReturnStatement"
                   /\ result.operands = <<valueBound.node>>
                   /\ diags = valueBound.diags

\* C13 happens: `return z`, z undeclared, was bound outside any subroutine
\* and the sink grew by one diagnostic, which is not about z
C13_Witness ==
    /\ entry = "bindStatement"
    /\ syntax = ReturnStmt(<<Z>>)
    /\ findAncestor(scope) = NoSymbol
    /\ result.kind = "InvalidStatement"
    /\ Len(added) = 1

\* the diagnostics of binding operand i of the expression bound last on its
\* own, into an empty sink
operandDiags(i) == bindAndPropagate(scope, syntax.kids[i], <<>>).diags

\* the diagnostics added are those of the left operand, then those of the
\* right operand, then at most the operator's BadBinaryExpression
operandsThenOperator ==
    LET dl == operandDiags(1)
        dr == operandDiags(2)
        own == SubSeq(added, Len(dl) + Len(dr) + 1, Len(added))
    IN  /\ Len(added) >= Len(dl) + Len(dr)
        /\ SubSeq(added, 1, Len(dl)) = dl
        /\ SubSeq(added, Len(dl) + 1, Len(dl) + Len(dr)) = dr
        /\ own = <<>> \/ (Len(own) = 1 /\ own[1].code = "BadBinaryExpression")

\* the entry point called last, called again on the same syntax, scope and sink
again ==
    CASE entry = "bindConstantExpression" -> bindConstantExpression(scope, syntax, before)
      [] entry = "bindSelfDeterminedExpression" ->
            bindSelfDeterminedExpression(scope, syntax, before)
      [] entry = "bindAssignmentLikeContext" ->
            bindAssignmentLikeContext(scope, syntax, dstType, before)
      [] entry = "bindStatement" -> bindStatement(scope, syntax, before)
      [] entry = "bindStatementList" -> bindStatementList(scope, syntax.kids, before)

C15_WideningRule ==
    \A i \in 1..Len(calls) :
        LET lhsType == calls[i].lhsType
            old == calls[i].before.type
            new == calls[i].after.type
        IN  width(lhsType) > width(old)
                => /\ calls[i].changed
                   /\ (~isReal(lhsType) /\ ~isReal(old))
                        => /\ isIntegral(new)
                           /\ width(new) = width(lhsType)
                           /\ isSigned(new) = isSigned(old)
                           /\ isFourState(new) = isFourState(old)
                   /\ (isReal(lhsType) \/ isReal(old))
                        => new = (IF width(lhsType) > 32 THEN getRealType
                                  ELSE getShortRealType)

\* C15 happens: an unsigned four-state expression was widened to the width of
\* a signed two-state type and kept its own signedness and four-state-ness
C15_Witness ==
    /\ Len(calls) >= 1
    /\ isIntegral(calls[1].lhsType) /\ isIntegral(calls[1].before.type)
    /\ width(calls[1].lhsType) > width(calls[1].before.type)
    /\ isSigned(calls[1].lhsType) /\ ~isFourState(calls[1].lhsType)
    /\ ~isSigned(calls[1].before.type) /\ isFourState(calls[1].before.type)
    /\ ~isSigned(calls[1].after.type) /\ isFourState(calls[1].after.type)
    /\ calls[1].changed

\* C16: a call of propagateAssignmentLike(rhs, lhsType) with lhsType no wider
\* than rhs.type returns false and leaves rhs as it was; after any call
\* rhs.type is at least as wide as before.
C16_NeverNarrows ==
    \A i \in 1..Len(calls) :
        /\ width(calls[i].lhsType) <= width(calls[i].before.type)
              => (~calls[i].changed /\ calls[i].after = calls[i].before)
        /\ width(calls[i].after.type) >= width(calls[i].before.type)

\* C16 happens: propagateAssignmentLike was called with a type narrower than
\* the expression's and returned false
C16_Witness ==
    /\ Len(calls) >= 1
    /\ width(calls[1].lhsType) < width(calls[1].before.type)
    /\ ~calls[1].changed
    /\ calls[1].after = calls[1].before

\* both operands of the binary operator bound last, or both arms of the
\* ternary bound last, are of two-state integral type
twoStateOperands ==
    /\ childrenBound
    /\ LET n == Len(boundChildren)
       IN  /\ n >= 2
           /\ \A i \in (n - 1)..n :
                 isIntegral(childType(i)) /\ ~isFourState(childType(i))

\* C17: with two-state integral operands the bound result type of division,
\* modulo and power and of the ternary operator is four-state, and that of the
\* other arithmetic operators and of the shifts is two-state.
C17_ForcedFourState ==
    (boundExpression /\ returned /\ twoStateOperands)
        => /\ syntax.kind \in {"DivideExpression", "ModExpression", "PowerExpression",
                               "ConditionalExpression"}
                => isFourState(result.type)
           /\ syntax.kind \in (ArithmeticKinds \cup ShiftOrPowerKinds)
                                \ {"DivideExpression", "ModExpression", "PowerExpression"}
                => ~isFourState(result.type)

\* a logical operator was bound over two operands it admits
logicalOverAdmissible ==
    /\ boundExpression
    /\ returned
    /\ syntax.kind \in RelationalKinds
    /\ childrenBound
    /\ \A i \in 1..2 : ~bad(boundChildren[i].node)
                          /\ (isIntegral(childType(i)) \/ isReal(childType(i)))

\* C18: after binding lhs OP rhs with OP one of && || -> <-> over admissible
\* operands, both operand nodes have the same width, the larger of the two
\* widths they had before, at most one operand's type was changed, and the
\* result is of the 1-bit logic type.
C18_ReciprocalWidening ==
    logicalOverAdmissible
        => /\ ~bad(result)
           /\ result.type = getLogicType
           /\ width(result.operands[1].type) = width(result.operands[2].type)
           /\ width(result.operands[1].type) = Max(width(childType(1)), width(childType(2)))
           /\ \/ result.operands[1].type = childType(1)
              \/ result.operands[2].type = childType(2)

\* an assignment operator was bound over two operands that are not Invalid
assignmentOverValid ==
    /\ boundExpression
    /\ returned
    /\ syntax.kind \in AssignmentKinds
    /\ childrenBound
    /\ ~invalidChild

\* the binary operator underlying the compound assignment bound last, bound
\* over the same operands
underlying ==
    bindAndPropagate(scope, Binary(binopKind(syntax.kind), syntax.kids[1], syntax.kids[2]),
                     before)

\* C19: plain assignment over operands that are not Invalid reports nothing
\* whatever their types and yields a node of the left operand's type; a
\* compound assignment is applicable exactly when its underlying binary
\* operator is applicable to the same operands.
C19_AssignmentApplicability ==
    assignmentOverValid
        => /\ syntax.kind = "AssignmentExpression"
                => /\ diags = sinkAfter(boundChildren, before)
                   /\ ~bad(result)
                   /\ result.type = childType(1)
           /\ syntax.kind # "AssignmentExpression"
                => /\ bad(result) = bad(underlying.node)
                   /\ Len(diags) = Len(underlying.diags)

\* a unary + - or ~ was bound over an operand that is not Invalid
unaryOverValid ==
    /\ boundExpression
    /\ returned
    /\ syntax.kind \in UnaryArithmeticKinds
    /\ childrenBound
    /\ ~invalidChild

\* the operator succeeded: nothing reported, a unary node of the operand's type
unarySucceeded ==
    /\ diags = sinkAfter(boundChildren, before)
    /\ ~bad(result)
    /\ result.kind = "UnaryExpression"
    /\ result.type = childType(1)

\* the operator was refused: one BadUnaryExpression after the operand's
\* diagnostics, and Invalid returned
unaryRefused ==
    /\ Len(diags) = Len(sinkAfter(boundChildren, before)) + 1
    /\ SubSeq(diags, 1, Len(diags) - 1) = sinkAfter(boundChildren, before)
    /\ diags[Len(diags)].code = "BadUnaryExpression"
    /\ bad(result)

replicationBound ==
    /\ boundExpression
    /\ syntax.kind = "MultipleConcatenationExpression"
    /\ childrenBound
    /\ canEval(boundChildren[1].node)
    /\ eval(boundChildren[1].node) >= 0
    /\ ~bad(boundChildren[2].node)

\* C21: {n{x}} with n a constant that is not negative and x of width w binds
\* to a node of unsigned integral type of width exactly n * w, whatever n is,
\* 65536 and more included.
C21_ReplicationWidth ==
    replicationBound
        => /\ returned
           /\ isIntegral(result.type)
           /\ ~isSigned(result.type)
           /\ width(result.type) = eval(boundChildren[1].node) * width(childType(2))

isVariable(member) == member.kind = "Variable"
isStatementItem(item) == isStatement(item.kind)

\* the Variable members of the scope, and the statement items of the block
\* bound last, each in their order
variableMembers == SelectSeq(scope.members, isVariable)
statementItems == SelectSeq(syntax.kids, isStatementItem)

\* C22: the list bindStatementList returns is one VariableDecl per Variable
\* member of the scope, in member order, followed by one bound statement per
\* item of a statement kind, in item order; nothing else is in it, so its
\* length is the number of Variable members plus the number of statement items.
C22_StatementListPrologue ==
    (entry = "bindStatementList" /\ returned)
        => LET list == result.operands
               n == Len(variableMembers)
           IN  /\ result.kind = "StatementList"
               /\ Len(list) = n + Len(statementItems)
               /\ \A i \in 1..n :
                     list[i] = Stmt("VariableDecl", variableMembers[i].name, <<>>)
               /\ \A j \in 1..Len(statementItems) :
                     /\ list[n + j].kind # "VariableDecl"
                     /\ list[n + j] = bindStatement(scope, statementItems[j], <<>>).node

\* C22 happens: a block of a statement, a declaration and another statement
\* was bound in a scope that has members that are not variables
C22_Witness ==
    /\ entry = "bindStatementList"
    /\ returned
    /\ syntax.kids = <<ExprStmt(A), DataDecl, ForStmt>>
    /\ Len(variableMembers) < Len(scope.members)
    /\ Len(result.operands) = Len(variableMembers) + 2
    /\ result.operands[Len(variableMembers) + 1].kind = "ExpressionStatement"

RECURSIVE splitNames(_)
\* the names of a comma-separated list
splitNames(list) ==
    LET index == find_first_of(list, ",")
    IN  IF index = npos THEN <<list>>
        ELSE <<substr(list, 0, index)>> \o splitNames(substrFrom(list, index + 1))

\* a name with its leading dash or two dashes stripped
stripped(n) ==
    IF Len(n) >= 2 /\ n[1] = "-" /\ n[2] = "-" THEN substrFrom(n, 2)
    ELSE IF Len(n) >= 1 /\ n[1] = "-" THEN substrFrom(n, 1)
    ELSE n

\* the names handed to the addInternal called last
namesAdded == splitNames(called.arg)

\* every name handed in begins with - or -- and goes on, and none was registered
namesWellFormed ==
    /\ called.arg # <<>>
    /\ \A i \in 1..Len(namesAdded) :
          /\ namesAdded[i] # <<>>
          /\ namesAdded[i][1] = "-"
          /\ stripped(namesAdded[i]) # <<>>
          /\ ~registered(called.optionMap, stripped(namesAdded[i]))

\* C24: addInternal called with well-formed names none of which is registered
\* returns normally and registers the option it allocated under each name
\* without its dashes; it throws invalid_argument only when the list is
\* empty, a name does not begin with a dash, a name is nothing but dashes, or
\* a name was registered before the call.
C24_OptionRegistration ==
    called.op = "addInternal"
        => /\ namesWellFormed
                => /\ called.thrown = "none"
                   /\ \A i \in 1..Len(namesAdded) :
                         /\ registered(optionMap, stripped(namesAdded[i]))
                         /\ optionMap[stripped(namesAdded[i])] = options
           /\ called.thrown = "invalid_argument" => ~namesWellFormed

\* an error without the program name it was formatted with
anonymous(errs) == [ i \in 1..Len(errs) |-> [kind |-> errs[i].kind, arg |-> errs[i].arg] ]

\* what the parse called last would have recorded had its first argument been
\* the empty string, which the loop skips
firstSkipped ==
    parse(<< <<>> >> \o Tail(called.arg), optionMap, positional, programName, called.errors)

\* C25: parse(span) uses its first argument for programName only; it neither
\* classifies it as positional nor looks it up as an option.  So parsing the
\* program name alone, with no positional option and no earlier error,
\* records no error and returns true; and parse returns true exactly when
\* errors is empty.
C25_ProgramNameOnly ==
    (called.op = "parse" /\ called.thrown = "none")
        => /\ called.returned = (errors = <<>>)
           /\ programName = filename(called.arg[1])
           /\ anonymous(errors) = anonymous(firstSkipped.errors)
           /\ (Len(called.arg) = 1 /\ ~positional /\ called.errors = <<>>)
                => (errors = <<>> /\ called.returned)

\* C23: while parse(string_view) scans a string, whatever the string, ptr
\* does not pass the end of the string and no character at or behind the end
\* is read, and every argument collected is non-empty.
C23_TokenizerInBounds ==
    /\ ptr <= Len(argList)
    /\ pc # "fault"
    /\ \A i \in 1..Len(storage) : storage[i] # <<>>

=============================================================================
